---- MODULE Spec2Model ----
(***************************************************************************)
(* Model of the NSx reader of continuousdata.py                            *)
(* (BlackrockContinuousData.fromfile and its helpers).                     *)
(*                                                                         *)
(* A file is a parsed header plus the bytes that follow it.  The packet    *)
(* region is kept byte for byte: the scanner and the sample reader work on *)
(* byte offsets, little-endian fields and int16 samples as the code does.  *)
(* fromfile is a sequential process: one action per statement group, the   *)
(* three helpers (_read_header, _scan_next_packet, _read_next_packet) and  *)
(* the resolver (_validate_sel_channels) are operators the actions apply.  *)
(***************************************************************************)
EXTENDS Integers, Sequences, FiniteSets, TLC

\* ------------------------------------------------------------------------
\* Bounds of the model
\* ------------------------------------------------------------------------
MaxChannels == 3        \* in-file channel count ranges over 1..MaxChannels
MaxSelLen == 3          \* longest requested channel list
MaxElecLen == 2         \* longest requested electrode list
MaxPackets == 3         \* most packets in a file
MaxPacketSamples == 2   \* most samples a packet declares
MaxRequest == 3         \* largest requested sample count
MaxCalls == 3           \* most successive reads of one file

\* ------------------------------------------------------------------------
\* Program constants
\* ------------------------------------------------------------------------
\* 0xFFFFFFFF in the source (line 174); TLC integers end at 2^31 - 1, which
\* stands in for it.  It is only ever compared against.
NSamplesCap == 2147483647
\* 8+2+4+16+256+4+4+16+4 bytes of fixed header, then 66 bytes per channel
FixedHeaderBytes == 314
ChannelRecordBytes == 66

\* ------------------------------------------------------------------------
\* Python values
\* ------------------------------------------------------------------------
None == [some |-> FALSE, val |-> <<>>]
Some(v) == [some |-> TRUE, val |-> v]
\* `x is not None and x`
Truthy(x) == x.some /\ x.val # <<>>

NoExc == [type |-> "none", site |-> "none"]
Exc(t, s) == [type |-> t, site |-> s]

Min(a, b) == IF a < b THEN a ELSE b

RECURSIVE SumSeq(_)
SumSeq(s) == IF s = <<>> THEN 0 ELSE Head(s) + SumSeq(Tail(s))

Range(s) == {s[i] : i \in 1..Len(s)}

\* all sequences over S of length lo..hi
SeqsUpTo(S, lo, hi) == UNION {[1..k -> S] : k \in lo..hi}

\* ------------------------------------------------------------------------
\* Bytes
\* ------------------------------------------------------------------------
\* int.from_bytes(b, byteorder='little', signed=False)
RECURSIVE FromBytesLE(_)
FromBytesLE(b) == IF b = <<>> THEN 0 ELSE Head(b) + 256 * FromBytesLE(Tail(b))

\* np.frombuffer(b, dtype=np.int16) of exactly two bytes
Int16FromBytes(b) ==
    LET u == FromBytesLE(b) IN IF u >= 32768 THEN u - 65536 ELSE u

\* the writer's side: k little-endian bytes of v >= 0
RECURSIVE ToBytesLE(_, _)
ToBytesLE(v, k) == IF k = 0 THEN <<>> ELSE <<v % 256>> \o ToBytesLE(v \div 256, k - 1)

Int16ToBytes(v) == ToBytesLE(IF v < 0 THEN v + 65536 ELSE v, 2)

\* ------------------------------------------------------------------------
\* Files
\* ------------------------------------------------------------------------
\* width of the packet's sample-offset field, as the recording system writes
OffsetWidth(tag) == IF tag = "BRSMPGRP" THEN 8 ELSE 4

\* sample r of channel c of packet p, as recorded: pairwise distinct over the
\* model's files, of both signs
SampleValue(p, r, c) ==
    LET m == 1 + c + 5 * r + 25 * p IN IF (c + r) % 2 = 1 THEN -m ELSE m

RECURSIVE RowBytes(_, _, _, _)
RowBytes(p, r, c, n) ==
    IF c >= n THEN <<>> ELSE Int16ToBytes(SampleValue(p, r, c)) \o RowBytes(p, r, c + 1, n)

RECURSIVE DataBytes(_, _, _, _)
DataBytes(p, r, rows, n) ==
    IF r >= rows THEN <<>> ELSE RowBytes(p, r, 0, n) \o DataBytes(p, r + 1, rows, n)

\* a packet as written: sentinel, sample offset, sample count, samples
PacketBytes(tag, p, pk, n) ==
    <<pk.sentinel>> \o ToBytesLE(pk.offset, OffsetWidth(tag))
        \o ToBytesLE(pk.n, 4) \o DataBytes(p, 0, pk.n, n)

RECURSIVE BodyBytes(_, _, _, _)
BodyBytes(tag, pks, p, n) ==
    IF p >= Len(pks) THEN <<>>
    ELSE PacketBytes(tag, p, pks[p + 1], n) \o BodyBytes(tag, pks, p + 1, n)

\* a file on disk: the header fields as stored, then the packet bytes
MkFile(tag, period, rate, time_ms, ids, pks, trailer) ==
    [ file_type_id |-> tag,
      bytes_in_header |-> FixedHeaderBytes + ChannelRecordBytes * Len(ids),
      period |-> period,
      raw_rate |-> rate,
      time_ms |-> time_ms,
      n_channels |-> Len(ids),
      channel_records |-> [i \in 1..Len(ids) |-> [electrode_id |-> ids[i], pin |-> i]],
      body |-> BodyBytes(tag, pks, 0, Len(ids)) \o trailer,
      packets |-> pks ]

FileSize(f) == f.bytes_in_header + Len(f.body)

\* file.read(k) at absolute position pos: short at end of file
FileRead(f, pos, k) ==
    LET lo == pos - f.bytes_in_header + 1
        hi == Min(lo + k - 1, Len(f.body))
    IN IF lo < 1 \/ lo > Len(f.body) THEN <<>> ELSE SubSeq(f.body, lo, hi)

\* ------------------------------------------------------------------------
\* datetime arithmetic
\* ------------------------------------------------------------------------
\* timedelta(seconds=num/rate) in microseconds: the nearest whole
\* microsecond, ties to even
TimedeltaMicros(num, rate) ==
    LET q == (num * 1000000) \div rate
        r == (num * 1000000) % rate
    IN IF 2 * r > rate \/ (2 * r = rate /\ q % 2 = 1) THEN q + 1 ELSE q

\* ------------------------------------------------------------------------
\* _read_header
\* ------------------------------------------------------------------------
ReadHeader(f) ==
    IF f.period # 1 THEN [exc |-> Exc("AssertionError", "period")]
    ELSE IF f.file_type_id = "NEURALSG" THEN [exc |-> Exc("ValueError", "file_type")]
    ELSE [ exc |-> NoExc,
           file_type_id |-> f.file_type_id,
           bytes_in_header |-> f.bytes_in_header,
           sample_rate |-> f.raw_rate \div f.period,
           time_origin |-> f.time_ms * 1000,
           n_channels |-> f.n_channels,
           channels_info |-> f.channel_records ]

\* ------------------------------------------------------------------------
\* _scan_next_packet
\* ------------------------------------------------------------------------
\* variant: the byte at the packet offset is read and not looked at
ScanNextPacket_AnySentinel(f, file_type_id, n_channels, offset) ==
    LET packet_header == FileRead(f, offset, 1)
        pos1 == offset + Len(packet_header)
    IN IF file_type_id \notin {"NEURALCD", "BRSMPGRP"}
       THEN [exc |-> Exc("ValueError", "file_type")]
       ELSE LET width == IF file_type_id = "NEURALCD" THEN 4 ELSE 8
                b_off == FileRead(f, pos1, width)
                pos2 == pos1 + Len(b_off)
                b_n == FileRead(f, pos2, 4)
                packet_n_samples == FromBytesLE(b_n)
                packet_start_pos == pos2 + Len(b_n)
                packet_end_pos == packet_start_pos + 2 * packet_n_samples * n_channels
            IN [ exc |-> NoExc,
                 packet_end_is_eof |-> (packet_end_pos = FileSize(f)),
                 packet_start_pos |-> packet_start_pos,
                 packet_n_samples |-> packet_n_samples,
                 packet_end_pos |-> packet_end_pos,
                 packet_sample_offset |-> FromBytesLE(b_off) ]

\* variant: a packet that declares 0 samples ends where it starts
ScanNextPacket_EmptyStays(f, file_type_id, n_channels, offset) ==
    LET packet_header == FileRead(f, offset, 1)
        pos1 == offset + Len(packet_header)
    IN IF packet_header # <<1>> THEN [exc |-> Exc("ValueError", "sentinel")]
       ELSE IF file_type_id \notin {"NEURALCD", "BRSMPGRP"}
       THEN [exc |-> Exc("ValueError", "file_type")]
       ELSE LET width == IF file_type_id = "NEURALCD" THEN 4 ELSE 8
                b_off == FileRead(f, pos1, width)
                pos2 == pos1 + Len(b_off)
                b_n == FileRead(f, pos2, 4)
                packet_n_samples == FromBytesLE(b_n)
                packet_start_pos == pos2 + Len(b_n)
                packet_end_pos == IF packet_n_samples = 0 THEN offset
                                  ELSE packet_start_pos + 2 * packet_n_samples * n_channels
            IN [ exc |-> NoExc,
                 packet_end_is_eof |-> (packet_end_pos = FileSize(f)),
                 packet_start_pos |-> packet_start_pos,
                 packet_n_samples |-> packet_n_samples,
                 packet_end_pos |-> packet_end_pos,
                 packet_sample_offset |-> FromBytesLE(b_off) ]

\* variant: the sample offset field taken as 4 bytes wide in both formats
ScanNextPacket_NarrowOffset(f, file_type_id, n_channels, offset) ==
    LET packet_header == FileRead(f, offset, 1)
        pos1 == offset + Len(packet_header)
    IN IF packet_header # <<1>> THEN [exc |-> Exc("ValueError", "sentinel")]
       ELSE IF file_type_id \notin {"NEURALCD", "BRSMPGRP"}
       THEN [exc |-> Exc("ValueError", "file_type")]
       ELSE LET width == 4
                b_off == FileRead(f, pos1, width)
                pos2 == pos1 + Len(b_off)
                b_n == FileRead(f, pos2, 4)
                packet_n_samples == FromBytesLE(b_n)
                packet_start_pos == pos2 + Len(b_n)
                packet_end_pos == packet_start_pos + 2 * packet_n_samples * n_channels
            IN [ exc |-> NoExc,
                 packet_end_is_eof |-> (packet_end_pos = FileSize(f)),
                 packet_start_pos |-> packet_start_pos,
                 packet_n_samples |-> packet_n_samples,
                 packet_end_pos |-> packet_end_pos,
                 packet_sample_offset |-> FromBytesLE(b_off) ]

ScanNextPacket(f, file_type_id, n_channels, offset) ==
    LET packet_header == FileRead(f, offset, 1)
        pos1 == offset + Len(packet_header)
    IN IF packet_header # <<1>> THEN [exc |-> Exc("ValueError", "sentinel")]
       ELSE IF file_type_id \notin {"NEURALCD", "BRSMPGRP"}
       THEN [exc |-> Exc("ValueError", "file_type")]
       ELSE LET width == IF file_type_id = "NEURALCD" THEN 4 ELSE 8
                b_off == FileRead(f, pos1, width)
                pos2 == pos1 + Len(b_off)
                b_n == FileRead(f, pos2, 4)
                packet_n_samples == FromBytesLE(b_n)
                packet_start_pos == pos2 + Len(b_n)
                packet_end_pos == packet_start_pos + 2 * packet_n_samples * n_channels
            IN [ exc |-> NoExc,
                 packet_end_is_eof |-> (packet_end_pos = FileSize(f)),
                 packet_start_pos |-> packet_start_pos,
                 packet_n_samples |-> packet_n_samples,
                 packet_end_pos |-> packet_end_pos,
                 packet_sample_offset |-> FromBytesLE(b_off) ]

\* ------------------------------------------------------------------------
\* _read_next_packet
\* ------------------------------------------------------------------------
\* np.fromfile(file, dtype=np.int16, count=count): the items that exist
FromFileInt16(f, pos, count) ==
    LET avail == IF FileSize(f) > pos THEN (FileSize(f) - pos) \div 2 ELSE 0
        got == Min(count, avail)
    IN [k \in 1..got |-> Int16FromBytes(FileRead(f, pos + 2 * (k - 1), 2))]

\* the inner while loop of the gather path: one sample row
RECURSIVE GatherRow(_, _, _, _, _, _)
GatherRow(f, channels, i, pos, cur_chn, acc) ==
    IF i > Len(channels)
    THEN [exc |-> NoExc, row |-> acc, pos |-> pos, cur_chn |-> cur_chn]
    ELSE LET at == pos + 2 * (channels[i] - cur_chn)
             b == FileRead(f, at, 2)
         IN IF at < 0 THEN [exc |-> Exc("OSError", "seek")]
            ELSE IF Len(b) # 2 THEN [exc |-> Exc("ValueError", "read")]
            ELSE GatherRow(f, channels, i + 1, at + 2, channels[i] + 1,
                           Append(acc, Int16FromBytes(b)))

\* variant: the seek past the channels left in the row (line 338) is missing
RECURSIVE GatherRows_NoRowSkip(_, _, _, _, _, _, _)
GatherRows_NoRowSkip(f, channels, n_channels_in_file, i_sample, n_samples, pos, acc) ==
    IF i_sample >= n_samples THEN [exc |-> NoExc, rows |-> acc]
    ELSE LET r == GatherRow(f, channels, 1, pos, 0, <<>>)
         IN IF r.exc # NoExc THEN [exc |-> r.exc]
            ELSE GatherRows_NoRowSkip(f, channels, n_channels_in_file, i_sample + 1,
                                      n_samples, r.pos, Append(acc, r.row))

\* the for loop of the gather path
RECURSIVE GatherRows(_, _, _, _, _, _, _)
GatherRows(f, channels, n_channels_in_file, i_sample, n_samples, pos, acc) ==
    IF i_sample >= n_samples THEN [exc |-> NoExc, rows |-> acc]
    ELSE LET r == GatherRow(f, channels, 1, pos, 0, <<>>)
         IN IF r.exc # NoExc THEN [exc |-> r.exc]
            ELSE GatherRows(f, channels, n_channels_in_file, i_sample + 1, n_samples,
                            r.pos + 2 * (n_channels_in_file - r.cur_chn),
                            Append(acc, r.row))

\* the fast path: one bulk read, reshaped sample-major
BulkRows(f, packet_start, n_channels, n_samples) ==
    LET items == FromFileInt16(f, packet_start, n_channels * n_samples)
    IN IF Len(items) # n_samples * n_channels THEN [exc |-> Exc("ValueError", "read")]
       ELSE [ exc |-> NoExc,
              rows |-> [r \in 1..n_samples |->
                          [c \in 1..n_channels |-> items[(r - 1) * n_channels + c]]] ]

\* variant: the bulk read is taken whatever the selection is
ReadNextPacket_AllColumns(f, packet_start, channels, n_samples, n_channels_in_file) ==
    LET got == BulkRows(f, packet_start, n_channels_in_file, n_samples)
    IN IF got.exc # NoExc THEN [exc |-> got.exc]
       ELSE [exc |-> NoExc,
             data |-> [shape |-> <<n_samples, n_channels_in_file>>, rows |-> got.rows]]

ReadNextPacket(f, packet_start, channels, n_samples, n_channels_in_file) ==
    LET n_channels == Len(channels)
        got == IF n_channels = n_channels_in_file
               THEN BulkRows(f, packet_start, n_channels, n_samples)
               ELSE GatherRows(f, channels, n_channels_in_file, 0, n_samples,
                               packet_start, <<>>)
    IN IF got.exc # NoExc THEN [exc |-> got.exc]
       ELSE [exc |-> NoExc,
             data |-> [shape |-> <<n_samples, n_channels>>, rows |-> got.rows]]

\* ------------------------------------------------------------------------
\* _validate_sel_channels
\* ------------------------------------------------------------------------
\* list.index(e): zero-based position of the first occurrence
IndexOf(s, e) == (CHOOSE i \in 1..Len(s) : s[i] = e /\ \A j \in 1..(i - 1) : s[j] # e) - 1

\* s[c] with Python's indexing: negative c counts from the end
PyIndexable(s, c) == -Len(s) <= c /\ c < Len(s)
PyIndex(s, c) == IF c >= 0 THEN s[c + 1] ELSE s[Len(s) + c + 1]

\* variant: the electrode branch collects the channels in file order, not in
\* the order of the request
ValidateSelChannels_FileOrder(channels, electrodes, n_channels_in_file, channels_info) ==
    LET electrodes_in_file == [i \in 1..Len(channels_info) |-> channels_info[i].electrode_id]
        all == [i \in 1..n_channels_in_file |-> i - 1]
    IN IF Truthy(electrodes)
       THEN LET es == SelectSeq(electrodes.val, LAMBDA e : e \in Range(electrodes_in_file))
                cs == SelectSeq(all, LAMBDA c : electrodes_in_file[c + 1] \in Range(es))
            IN IF cs = <<>> THEN [exc |-> Exc("ValueError", "electrodes")]
               ELSE [ exc |-> NoExc, channels |-> cs, electrodes |-> es,
                      channels_info |-> [i \in 1..Len(cs) |-> PyIndex(channels_info, cs[i])] ]
       ELSE IF Truthy(channels)
       THEN LET cs == SelectSeq(channels.val, LAMBDA c : c < n_channels_in_file)
            IN IF \E i \in 1..Len(cs) : ~PyIndexable(channels_info, cs[i])
               THEN [exc |-> Exc("IndexError", "channels_info")]
               ELSE IF cs = <<>> THEN [exc |-> Exc("ValueError", "channels")]
               ELSE [ exc |-> NoExc, channels |-> cs,
                      electrodes |-> [i \in 1..Len(cs) |->
                                        PyIndex(channels_info, cs[i]).electrode_id],
                      channels_info |-> [i \in 1..Len(cs) |-> PyIndex(channels_info, cs[i])] ]
       ELSE [ exc |-> NoExc, channels |-> all,
              electrodes |-> [i \in 1..Len(all) |-> PyIndex(channels_info, all[i]).electrode_id],
              channels_info |-> [i \in 1..Len(all) |-> PyIndex(channels_info, all[i])] ]

\* variant: the channel branch hands over the surviving channels in
\* ascending order, each once, not in the order of the request
ValidateSelChannels_Ascending(channels, electrodes, n_channels_in_file, channels_info) ==
    LET electrodes_in_file == [i \in 1..Len(channels_info) |-> channels_info[i].electrode_id]
    IN IF Truthy(electrodes)
       THEN LET es == SelectSeq(electrodes.val, LAMBDA e : e \in Range(electrodes_in_file))
                cs == [i \in 1..Len(es) |-> IndexOf(electrodes_in_file, es[i])]
            IN IF cs = <<>> THEN [exc |-> Exc("ValueError", "electrodes")]
               ELSE [ exc |-> NoExc, channels |-> cs, electrodes |-> es,
                      channels_info |-> [i \in 1..Len(cs) |-> PyIndex(channels_info, cs[i])] ]
       ELSE IF Truthy(channels)
       THEN LET kept == SelectSeq(channels.val, LAMBDA c : c < n_channels_in_file)
                cs == SelectSeq([i \in 1..(2 * n_channels_in_file) |->
                                    i - 1 - n_channels_in_file],
                                LAMBDA c : c \in Range(kept))
            IN IF \E i \in 1..Len(kept) : ~PyIndexable(channels_info, kept[i])
               THEN [exc |-> Exc("IndexError", "channels_info")]
               ELSE IF cs = <<>> THEN [exc |-> Exc("ValueError", "channels")]
               ELSE [ exc |-> NoExc, channels |-> cs,
                      electrodes |-> [i \in 1..Len(cs) |->
                                        PyIndex(channels_info, cs[i]).electrode_id],
                      channels_info |-> [i \in 1..Len(cs) |-> PyIndex(channels_info, cs[i])] ]
       ELSE LET cs == [i \in 1..n_channels_in_file |-> i - 1]
            IN [ exc |-> NoExc, channels |-> cs,
                 electrodes |-> [i \in 1..Len(cs) |-> PyIndex(channels_info, cs[i]).electrode_id],
                 channels_info |-> [i \in 1..Len(cs) |-> PyIndex(channels_info, cs[i])] ]

\* variant: a channel request is looked at before an electrode request
ValidateSelChannels_ChannelsFirst(channels, electrodes, n_channels_in_file, channels_info) ==
    LET electrodes_in_file == [i \in 1..Len(channels_info) |-> channels_info[i].electrode_id]
    IN IF Truthy(channels)
       THEN LET cs == SelectSeq(channels.val, LAMBDA c : c < n_channels_in_file)
            IN IF \E i \in 1..Len(cs) : ~PyIndexable(channels_info, cs[i])
               THEN [exc |-> Exc("IndexError", "channels_info")]
               ELSE IF cs = <<>> THEN [exc |-> Exc("ValueError", "channels")]
               ELSE [ exc |-> NoExc, channels |-> cs,
                      electrodes |-> [i \in 1..Len(cs) |->
                                        PyIndex(channels_info, cs[i]).electrode_id],
                      channels_info |-> [i \in 1..Len(cs) |-> PyIndex(channels_info, cs[i])] ]
       ELSE IF Truthy(electrodes)
       THEN LET es == SelectSeq(electrodes.val, LAMBDA e : e \in Range(electrodes_in_file))
                cs == [i \in 1..Len(es) |-> IndexOf(electrodes_in_file, es[i])]
            IN IF cs = <<>> THEN [exc |-> Exc("ValueError", "electrodes")]
               ELSE [ exc |-> NoExc, channels |-> cs, electrodes |-> es,
                      channels_info |-> [i \in 1..Len(cs) |-> PyIndex(channels_info, cs[i])] ]
       ELSE LET cs == [i \in 1..n_channels_in_file |-> i - 1]
            IN [ exc |-> NoExc, channels |-> cs,
                 electrodes |-> [i \in 1..Len(cs) |-> PyIndex(channels_info, cs[i]).electrode_id],
                 channels_info |-> [i \in 1..Len(cs) |-> PyIndex(channels_info, cs[i])] ]

ValidateSelChannels(channels, electrodes, n_channels_in_file, channels_info) ==
    LET electrodes_in_file == [i \in 1..Len(channels_info) |-> channels_info[i].electrode_id]
    IN IF Truthy(electrodes)
       THEN LET es == SelectSeq(electrodes.val, LAMBDA e : e \in Range(electrodes_in_file))
                cs == [i \in 1..Len(es) |-> IndexOf(electrodes_in_file, es[i])]
            IN IF cs = <<>> THEN [exc |-> Exc("ValueError", "electrodes")]
               ELSE [ exc |-> NoExc, channels |-> cs, electrodes |-> es,
                      channels_info |-> [i \in 1..Len(cs) |-> PyIndex(channels_info, cs[i])] ]
       ELSE IF Truthy(channels)
       THEN LET cs == SelectSeq(channels.val, LAMBDA c : c < n_channels_in_file)
            IN IF \E i \in 1..Len(cs) : ~PyIndexable(channels_info, cs[i])
               THEN [exc |-> Exc("IndexError", "channels_info")]
               ELSE IF cs = <<>> THEN [exc |-> Exc("ValueError", "channels")]
               ELSE [ exc |-> NoExc, channels |-> cs,
                      electrodes |-> [i \in 1..Len(cs) |->
                                        PyIndex(channels_info, cs[i]).electrode_id],
                      channels_info |-> [i \in 1..Len(cs) |-> PyIndex(channels_info, cs[i])] ]
       ELSE LET cs == [i \in 1..n_channels_in_file |-> i - 1]
            IN [ exc |-> NoExc, channels |-> cs,
                 electrodes |-> [i \in 1..Len(cs) |-> PyIndex(channels_info, cs[i]).electrode_id],
                 channels_info |-> [i \in 1..Len(cs) |-> PyIndex(channels_info, cs[i])] ]

\* ------------------------------------------------------------------------
\* BlackrockContinuousData.__init__
\* ------------------------------------------------------------------------
NewRecording(d, rate, cs, es, info, t0, index, sample_offset) ==
    [ data |-> d,
      sample_rate |-> rate,
      channels |-> cs,
      electrodes |-> es,
      channels_info |-> info,
      packet_index |-> index,
      packet_sample_offset |-> sample_offset,
      time_origin |-> IF sample_offset > 0
                      THEN t0 + TimedeltaMicros(sample_offset, rate)
                      ELSE t0,
      n_samples |-> d.shape[1],
      n_channels |-> d.shape[2] ]

\* ------------------------------------------------------------------------
\* State
\* ------------------------------------------------------------------------
VARIABLES
    file,                   \* the file on disk
    call,                   \* arguments of the running (or last) fromfile call
    pc,                     \* position of the call
    hdr,                    \* what _read_header returned
    n_samples,              \* locals of fromfile, named as in the source
    time_origin,
    sel_channels,           \* the channels and electrodes arguments, as line 180
    sel_electrodes,         \* passes them to the resolver
    channels,               \* the resolved lists of line 180, empty before it
    electrodes,
    channels_info,
    packet_index,
    packet_sample_offset,
    packet_n_samples,
    prev_packet_n_samples,
    packet_start_pos,
    packet_end_pos,
    is_eof,
    n_samples_read,
    cd_list,
    ret,                    \* the value returned
    exc,                    \* the exception raised
    warns,                  \* warnings.warn calls of this call, in order
    io,                     \* packet operations on the file of this call, in order
    handles,                \* opens and closes of the file of this call, in order
    hist                    \* outcomes of the calls that ended, in order

\* find_waveforms (spikedetect.py)
VARIABLES
    fw_call,                \* arguments of the running (or last) find_waveforms call
    fw_pc,                  \* position of the call
    configs,                \* locals of find_waveforms, named as in the source
    waveform_window_samples,
    n_samples_per_waveform,
    spike_data,
    chn,
    i_peaks,
    i_peak,                 \* peaks of i_peaks the for loop of line 117 has taken
    i_waveform,
    fw_exc,                 \* the exception raised
    fw_hist                 \* outcomes of the calls that ended, in order

\* move_clusters (spikesorting.py)
VARIABLES
    mc_call,                \* arguments of the move_clusters call
    mc_pc,                  \* position of the call
    labels,                 \* the caller's label array
    mc_ret                  \* the value returned

sel == <<sel_channels, sel_electrodes, channels, electrodes, channels_info>>
scan == <<packet_index, packet_sample_offset, packet_n_samples, prev_packet_n_samples,
          packet_start_pos, packet_end_pos, is_eof>>
reader == <<file, call, pc, hdr, n_samples, time_origin, sel, scan, n_samples_read,
            cd_list, ret, exc, warns, io, handles, hist>>
detector == <<fw_call, fw_pc, configs, waveform_window_samples, n_samples_per_waveform,
              spike_data, chn, i_peaks, i_peak, i_waveform, fw_exc, fw_hist>>
sorter == <<mc_call, mc_pc, labels, mc_ret>>
vars == <<reader, detector, sorter>>

\* no find_waveforms call was made
DetectorIdle ==
    /\ fw_call = [kind |-> "none"]
    /\ fw_pc = "idle"
    /\ configs = <<>>
    /\ waveform_window_samples = <<0, 0>>
    /\ n_samples_per_waveform = 0
    /\ spike_data = <<>>
    /\ chn = 0
    /\ i_peaks = <<>>
    /\ i_peak = 0
    /\ i_waveform = 0
    /\ fw_exc = [type |-> "none", site |-> "none"]
    /\ fw_hist = <<>>

\* no move_clusters call was made
SorterIdle ==
    /\ mc_call = [kind |-> "none"]
    /\ mc_pc = "idle"
    /\ labels = <<>>
    /\ mc_ret = [kind |-> "none"]

NoRet == [kind |-> "none", cds |-> <<>>]
NoHdr == [exc |-> NoExc]
NoCall == [electrodes |-> None, channels |-> None, n_samples |-> 0, packet_mode |-> "none"]

Outcome(r, e, w, ops) == [call |-> call, ret |-> r, exc |-> e, warns |-> w, io |-> ops]

\* variant: a helper that raises leaves its handle open
Scoped_OpenOnRaise(by, failed) ==
    IF failed THEN <<[ev |-> "open", by |-> by]>>
    ELSE <<[ev |-> "open", by |-> by], [ev |-> "close", by |-> by]>>

\* `with open(file, mode='rb') as file:` around the body of a helper (lines
\* 256, 292, 317): the handle is closed when the block is left, by a return
\* or by an exception
Scoped(by, failed) == <<[ev |-> "open", by |-> by], [ev |-> "close", by |-> by]>>

\* the call raises e; ops are the packet operations it got to, hs the opens
\* and closes
Raise(e, ops, hs) ==
    /\ pc' = "raised"
    /\ exc' = e
    /\ io' = ops
    /\ handles' = hs
    /\ hist' = Append(hist, Outcome(NoRet, e, warns, ops))
    /\ UNCHANGED <<detector, sorter, file, call, hdr, n_samples, time_origin, sel, scan, n_samples_read,
                   cd_list, ret, warns>>

InitWith(f) ==
    /\ file = f
    /\ call = NoCall
    /\ pc = "idle"
    /\ hdr = NoHdr
    /\ n_samples = 0
    /\ time_origin = 0
    /\ sel_channels = None
    /\ sel_electrodes = None
    /\ channels = <<>>
    /\ electrodes = <<>>
    /\ channels_info = <<>>
    /\ packet_index = 0
    /\ packet_sample_offset = 0
    /\ packet_n_samples = 0
    /\ prev_packet_n_samples = 0
    /\ packet_start_pos = 0
    /\ packet_end_pos = 0
    /\ is_eof = FALSE
    /\ n_samples_read = 0
    /\ cd_list = <<>>
    /\ ret = NoRet
    /\ exc = NoExc
    /\ warns = <<>>
    /\ io = <<>>
    /\ handles = <<>>
    /\ hist = <<>>
    /\ DetectorIdle
    /\ SorterIdle

\* ------------------------------------------------------------------------
\* fromfile, statement group by statement group
\* ------------------------------------------------------------------------
\* variant: an omitted electrodes argument takes the electrodes of the call
\* before (a default that is shared between calls)
Enter_StickyElectrodes(a) ==
    /\ call' = a
    /\ pc' = "read_header"
    /\ hdr' = NoHdr
    /\ n_samples' = IF a.n_samples > NSamplesCap THEN NSamplesCap ELSE a.n_samples
    /\ warns' = IF a.n_samples > NSamplesCap THEN <<"capped">> ELSE <<>>
    /\ time_origin' = 0
    /\ sel_channels' = a.channels
    /\ sel_electrodes' = IF a.electrodes.some THEN a.electrodes ELSE call.electrodes
    /\ channels' = <<>>
    /\ electrodes' = <<>>
    /\ channels_info' = <<>>
    /\ packet_index' = 0
    /\ packet_sample_offset' = 0
    /\ packet_n_samples' = 0
    /\ prev_packet_n_samples' = 0
    /\ packet_start_pos' = 0
    /\ packet_end_pos' = 0
    /\ is_eof' = FALSE
    /\ n_samples_read' = 0
    /\ cd_list' = <<>>
    /\ ret' = NoRet
    /\ exc' = NoExc
    /\ io' = <<>>
    /\ handles' = <<>>
    /\ UNCHANGED <<detector, sorter, file, hist>>

\* entry: a fresh frame, the arguments bound, n_samples capped (174-176)
Enter(a) ==
    /\ call' = a
    /\ pc' = "read_header"
    /\ hdr' = NoHdr
    /\ n_samples' = IF a.n_samples > NSamplesCap THEN NSamplesCap ELSE a.n_samples
    /\ warns' = IF a.n_samples > NSamplesCap THEN <<"capped">> ELSE <<>>
    /\ time_origin' = 0
    /\ sel_channels' = a.channels
    /\ sel_electrodes' = a.electrodes
    /\ channels' = <<>>
    /\ electrodes' = <<>>
    /\ channels_info' = <<>>
    /\ packet_index' = 0
    /\ packet_sample_offset' = 0
    /\ packet_n_samples' = 0
    /\ prev_packet_n_samples' = 0
    /\ packet_start_pos' = 0
    /\ packet_end_pos' = 0
    /\ is_eof' = FALSE
    /\ n_samples_read' = 0
    /\ cd_list' = <<>>
    /\ ret' = NoRet
    /\ exc' = NoExc
    /\ io' = <<>>
    /\ handles' = <<>>
    /\ UNCHANGED <<detector, sorter, file, hist>>

\* line 178
DoReadHeader ==
    /\ pc = "read_header"
    /\ \E h \in {ReadHeader(file)} :
       LET hs == handles \o Scoped("header", h.exc # NoExc)
       IN IF h.exc # NoExc THEN Raise(h.exc, io, hs)
          ELSE /\ hdr' = h
               /\ time_origin' = h.time_origin
               /\ handles' = hs
               /\ pc' = "validate"
               /\ UNCHANGED <<detector, sorter, file, call, n_samples, sel, scan, n_samples_read, cd_list,
                              ret, exc, warns, io, hist>>

\* lines 180-186
DoValidate ==
    /\ pc = "validate"
    /\ \E v \in {ValidateSelChannels(sel_channels, sel_electrodes, hdr.n_channels,
                                       hdr.channels_info)} :
          IF v.exc # NoExc THEN Raise(v.exc, io, handles)
          ELSE /\ pc' = "dispatch"
               /\ channels' = v.channels
               /\ electrodes' = v.electrodes
               /\ channels_info' = v.channels_info
               /\ packet_index' = -1
               /\ packet_sample_offset' = 0
               /\ packet_n_samples' = 0
               /\ prev_packet_n_samples' = 0
               /\ packet_start_pos' = 0
               /\ UNCHANGED <<detector, sorter, file, call, hdr, n_samples, time_origin,
                              sel_channels, sel_electrodes, packet_end_pos,
                              is_eof, n_samples_read, cd_list, ret, exc, warns, io,
                              handles, hist>>

\* variant: the correction starts one packet late
CorrectedOrigin_OffByOne(t0, index, sample_offset, prev_n, rate) ==
    IF index > 1 /\ sample_offset = 0 THEN t0 + TimedeltaMicros(prev_n, rate) ELSE t0

\* the timing correction of lines 201-202 and 228-229
CorrectedOrigin(t0, index, sample_offset, prev_n, rate) ==
    IF index > 0 /\ sample_offset = 0 THEN t0 + TimedeltaMicros(prev_n, rate) ELSE t0

\* the log of packet operations: a scan at an offset; a read of n rows at a
\* data start, asked the count the caller wanted of that packet
ScanOp(offset) == [op |-> "scan", pos |-> offset, n |-> 0, asked |-> 0]
ReadOp(start, n, asked) == [op |-> "read", pos |-> start, n |-> n, asked |-> asked]

\* lines 189-193
AllInit ==
    /\ pc = "dispatch"
    /\ call.packet_mode = "all"
    /\ n_samples_read' = 0
    /\ is_eof' = FALSE
    /\ packet_end_pos' = hdr.bytes_in_header
    /\ cd_list' = <<>>
    /\ pc' = "all_loop"
    /\ UNCHANGED <<detector, sorter, file, call, hdr, n_samples, time_origin, sel, packet_index,
                   packet_sample_offset, packet_n_samples, prev_packet_n_samples,
                   packet_start_pos, ret, exc, warns, io, handles, hist>>

\* the sample count the 'all' loop asks of one packet (line 206)
AllToRead(n, n_read, packet_n) == Min(n - n_read, packet_n)
\* the running count after reading a packet (line 209)
AllCount(n_read, n_to_read) == n_read - n_to_read

\* one iteration of the loop of lines 194-211
AllIter ==
    /\ pc = "all_loop"
    /\ ~is_eof /\ n_samples_read < n_samples
    /\ \E s \in {ScanNextPacket(file, hdr.file_type_id, hdr.n_channels, packet_end_pos)} :
       LET ops1 == Append(io, ScanOp(packet_end_pos))
           hs1 == handles \o Scoped("scan", s.exc # NoExc)
       IN IF s.exc # NoExc THEN Raise(s.exc, ops1, hs1)
          ELSE LET index == packet_index + 1
                   t0 == CorrectedOrigin(time_origin, index, s.packet_sample_offset,
                                         prev_packet_n_samples, hdr.sample_rate)
                   n_to_read == AllToRead(n_samples, n_samples_read, s.packet_n_samples)
               IN \E d \in {ReadNextPacket(file, s.packet_start_pos, channels, n_to_read,
                                          hdr.n_channels)} :
                  LET ops2 == Append(ops1, ReadOp(s.packet_start_pos, n_to_read,
                                                  n_samples - n_samples_read))
                      hs2 == hs1 \o Scoped("read", d.exc # NoExc)
                  IN
                  IF d.exc # NoExc THEN Raise(d.exc, ops2, hs2)
                  ELSE /\ packet_index' = index
                       /\ is_eof' = s.packet_end_is_eof
                       /\ packet_start_pos' = s.packet_start_pos
                       /\ packet_n_samples' = s.packet_n_samples
                       /\ packet_end_pos' = s.packet_end_pos
                       /\ packet_sample_offset' = s.packet_sample_offset
                       /\ time_origin' = t0
                       /\ prev_packet_n_samples' = s.packet_n_samples
                       /\ n_samples_read' = AllCount(n_samples_read, n_to_read)
                       /\ cd_list' = Append(cd_list,
                              NewRecording(d.data, hdr.sample_rate, channels, electrodes,
                                           channels_info, t0, index, s.packet_sample_offset))
                       /\ io' = ops2
                       /\ handles' = hs2
                       /\ UNCHANGED <<detector, sorter, file, call, pc, hdr, n_samples, sel, ret, exc,
                                      warns, hist>>

\* line 212
AllReturn ==
    /\ pc = "all_loop"
    /\ ~(~is_eof /\ n_samples_read < n_samples)
    /\ pc' = "done"
    /\ ret' = [kind |-> "list", cds |-> cd_list]
    /\ hist' = Append(hist, Outcome(ret', NoExc, warns, io))
    /\ UNCHANGED <<detector, sorter, file, call, hdr, n_samples, time_origin, sel, scan, n_samples_read,
                   cd_list, exc, warns, io, handles>>

\* lines 214-217
FirstScan ==
    /\ pc = "dispatch"
    /\ call.packet_mode = "first"
    /\ \E s \in {ScanNextPacket(file, hdr.file_type_id, hdr.n_channels,
                                  hdr.bytes_in_header)} :
       LET ops1 == Append(io, ScanOp(hdr.bytes_in_header))
           hs1 == handles \o Scoped("scan", s.exc # NoExc)
       IN IF s.exc # NoExc THEN Raise(s.exc, ops1, hs1)
          ELSE /\ packet_index' = packet_index + 1
               /\ packet_start_pos' = s.packet_start_pos
               /\ packet_n_samples' = s.packet_n_samples
               /\ packet_sample_offset' = s.packet_sample_offset
               /\ io' = ops1
               /\ handles' = hs1
               /\ pc' = "tail"
               /\ UNCHANGED <<detector, sorter, file, call, hdr, n_samples, time_origin, sel,
                              prev_packet_n_samples, packet_end_pos, is_eof,
                              n_samples_read, cd_list, ret, exc, warns, hist>>

\* lines 219-221
LastInit ==
    /\ pc = "dispatch"
    /\ call.packet_mode = "last"
    /\ is_eof' = FALSE
    /\ packet_end_pos' = hdr.bytes_in_header
    /\ pc' = "last_loop"
    /\ UNCHANGED <<detector, sorter, file, call, hdr, n_samples, time_origin, sel, packet_index,
                   packet_sample_offset, packet_n_samples, prev_packet_n_samples,
                   packet_start_pos, n_samples_read, cd_list, ret, exc, warns, io,
                   handles, hist>>

\* one iteration of the loop of lines 222-230; the loop ends when is_eof
LastIter ==
    /\ pc = "last_loop"
    /\ ~is_eof
    /\ \E s \in {ScanNextPacket(file, hdr.file_type_id, hdr.n_channels, packet_end_pos)} :
       LET ops1 == Append(io, ScanOp(packet_end_pos))
           hs1 == handles \o Scoped("scan", s.exc # NoExc)
       IN IF s.exc # NoExc THEN Raise(s.exc, ops1, hs1)
          ELSE LET index == packet_index + 1
               IN /\ packet_index' = index
                  /\ is_eof' = s.packet_end_is_eof
                  /\ packet_start_pos' = s.packet_start_pos
                  /\ packet_n_samples' = s.packet_n_samples
                  /\ packet_end_pos' = s.packet_end_pos
                  /\ packet_sample_offset' = s.packet_sample_offset
                  /\ time_origin' = CorrectedOrigin(time_origin, index, s.packet_sample_offset,
                                                    prev_packet_n_samples, hdr.sample_rate)
                  /\ prev_packet_n_samples' = s.packet_n_samples
                  /\ io' = ops1
                  /\ handles' = hs1
                  /\ pc' = IF s.packet_end_is_eof THEN "tail" ELSE "last_loop"
                  /\ UNCHANGED <<detector, sorter, file, call, hdr, n_samples, sel, n_samples_read, cd_list,
                                 ret, exc, warns, hist>>

\* lines 232-233
UnknownMode ==
    /\ pc = "dispatch"
    /\ call.packet_mode \notin {"all", "first", "last"}
    /\ Raise(Exc("ValueError", "packet_mode"), io, handles)

\* the warnings of lines 236-237 in this call so far
TailWarns(w, n, packet_n) == IF n > packet_n THEN Append(w, "truncated") ELSE w

\* variant: the request is not clamped to the packet
ClampSamples_None(n, packet_n) == n

\* line 238
ClampSamples(n, packet_n) == Min(n, packet_n)

\* lines 236-242
ReadOne ==
    /\ pc = "tail"
    /\ \E d \in {ReadNextPacket(file, packet_start_pos, channels,
                                 ClampSamples(n_samples, packet_n_samples),
                                 hdr.n_channels)} :
       LET w == TailWarns(warns, n_samples, packet_n_samples)
           n == ClampSamples(n_samples, packet_n_samples)
           ops == Append(io, ReadOp(packet_start_pos, n, n_samples))
           hs == handles \o Scoped("read", d.exc # NoExc)
       IN IF d.exc # NoExc
          THEN /\ pc' = "raised"
               /\ exc' = d.exc
               /\ io' = ops
               /\ handles' = hs
               /\ warns' = w
               /\ n_samples' = n
               /\ hist' = Append(hist, Outcome(NoRet, d.exc, w, ops))
               /\ UNCHANGED <<detector, sorter, file, call, hdr, time_origin, sel, scan, n_samples_read,
                              cd_list, ret>>
          ELSE /\ pc' = "done"
               /\ warns' = w
               /\ n_samples' = n
               /\ io' = ops
               /\ handles' = hs
               /\ ret' = [kind |-> "one",
                          cds |-> <<NewRecording(d.data, hdr.sample_rate, channels,
                                                 electrodes, channels_info, time_origin,
                                                 packet_index, packet_sample_offset)>>]
               /\ hist' = Append(hist, Outcome(ret', NoExc, w, ops))
               /\ UNCHANGED <<detector, sorter, file, call, hdr, time_origin, sel, scan, n_samples_read,
                              cd_list, exc>>

Steps ==
    \/ DoReadHeader
    \/ DoValidate
    \/ AllInit
    \/ AllIter
    \/ AllReturn
    \/ FirstScan
    \/ LastInit
    \/ LastIter
    \/ UnknownMode
    \/ ReadOne

\* ------------------------------------------------------------------------
\* The files and the calls of the model
\* ------------------------------------------------------------------------
\* electrode IDs of an n-channel file: 1, 5, 6, 7, ... as rigs number them,
\* or 5, 5, 6, 7, ... with one ID recorded twice
DistinctIds(n) == [i \in 1..n |-> IF i = 1 THEN 1 ELSE i + 3]
RepeatedIds(n) == [i \in 1..n |-> IF i <= 2 THEN 5 ELSE i + 3]
ElectrodeVals == {1, 5, 6, 9}

Tags == {"NEURALCD", "BRSMPGRP"}
Packet(n, offset) == [sentinel |-> 1, offset |-> offset, n |-> n]

\* files that differ in their channels; two packets of 1 and 2 samples
SelFiles ==
    { MkFile(tag, 1, 30000, 7, ids, <<Packet(1, 0), Packet(2, 0)>>, <<>>) :
        tag \in Tags,
        ids \in UNION {{DistinctIds(n), RepeatedIds(n)} : n \in 1..MaxChannels} }

ChannelRequests ==
    SeqsUpTo(0..MaxChannels, 1, MaxSelLen) \cup SeqsUpTo({-2, -1, 0, MaxChannels}, 1, 2)
ElectrodeRequests == SeqsUpTo(ElectrodeVals, 1, MaxElecLen)

Arg(es, cs, n, mode) == [electrodes |-> es, channels |-> cs, n_samples |-> n, packet_mode |-> mode]

Selections ==
    {<<None, Some(cs)>> : cs \in ChannelRequests}
        \cup {<<Some(es), None>> : es \in ElectrodeRequests}
        \cup {<<Some(es), Some(cs)>> : es \in {<<5>>, <<9>>}, cs \in {<<0>>, <<1>>, <<>>}}
        \cup {<<None, None>>, <<Some(<<>>), None>>, <<Some(<<>>), Some(<<0>>)>>}

SelCalls ==
    { Arg(s[1], s[2], n, mode) :
        s \in Selections, n \in {1, MaxRequest}, mode \in {"first", "last", "all"} }
        \cup {Arg(None, None, 1, "middle")}

Call == pc = "idle" /\ \E a \in SelCalls : Enter(a)

Init == \E f \in SelFiles : InitWith(f)
Next == Call \/ Steps
Spec == Init /\ [][Next]_vars

\* files that differ in their packets; two channels
PacketSizes == {0, 1, MaxPacketSamples}
SampleOffsets == {0, 3}
PacketLists ==
    SeqsUpTo({Packet(n, off) : n \in PacketSizes, off \in SampleOffsets}, 0, MaxPackets)

PktFiles ==
    { MkFile(tt[1], 1, 30000, 7, DistinctIds(2), pks, tt[2]) :
        tt \in {<<"NEURALCD", <<>>>>, <<"BRSMPGRP", <<>>>>, <<"NEURALCD", <<0>>>>},
        pks \in PacketLists }

\* files the reader refuses: a legacy tag, a tag it does not know, a period of 2
BadFiles ==
    { MkFile("NEURALSG", 1, 30000, 7, DistinctIds(2), <<Packet(1, 0)>>, <<>>),
      MkFile("NEURALXX", 1, 30000, 7, DistinctIds(2), <<Packet(1, 0)>>, <<>>),
      MkFile("NEURALCD", 2, 30000, 7, DistinctIds(2), <<Packet(1, 0)>>, <<>>) }

\* files in which one packet starts with a byte that is not 0x01
BadSentinels == {0, 2}
BadSentinelFiles ==
    { MkFile("NEURALCD", 1, 30000, 7, DistinctIds(2),
             [i \in 1..k |-> IF i = j THEN [sentinel |-> b, offset |-> 0, n |-> 1]
                                      ELSE Packet(1, 0)],
             <<>>) :
        k \in 1..MaxPackets, j \in 1..MaxPackets, b \in BadSentinels }

PktCalls ==
    { Arg(None, None, n, mode) : n \in {0, 1, MaxRequest}, mode \in {"first", "last", "all"} }
        \cup { Arg(None, Some(<<1>>), MaxRequest, mode) : mode \in {"last", "all"} }
        \cup {Arg(None, None, 1, "middle"), Arg(None, Some(<<MaxChannels>>), 1, "last")}

CallPackets == pc = "idle" /\ \E a \in PktCalls : Enter(a)

InitPackets == \E f \in PktFiles \cup BadFiles \cup BadSentinelFiles : InitWith(f)
NextPackets == CallPackets \/ Steps
SpecPackets == InitPackets /\ [][NextPackets]_vars

\* ------------------------------------------------------------------------
\* Reads that must come to an end, on whole and on cut files
\* ------------------------------------------------------------------------
LivePacketLists == SeqsUpTo({Packet(n, 0) : n \in {0, MaxPacketSamples}}, 0, MaxPackets)

WholeFiles ==
    { MkFile(tt[1], 1, 30000, 7, DistinctIds(2), pks, tt[2]) :
        tt \in {<<"NEURALCD", <<>>>>, <<"BRSMPGRP", <<>>>>, <<"NEURALCD", <<0>>>>},
        pks \in LivePacketLists }

\* bytes missing at the end of a file: part of a sample, a sample row and a
\* half, and all the data of the last packet with part of its header
Cuts == {1, 6, 4 * MaxPacketSamples + 2}
\* a file that ends before the data its last packet declares
CutFiles ==
    { [f EXCEPT !.body = SubSeq(@, 1, Len(@) - cut)] :
        f \in { MkFile(tag, 1, 30000, 7, DistinctIds(2), pks, <<>>) :
                  tag \in Tags,
                  pks \in { <<Packet(MaxPacketSamples, 0)>>,
                            <<Packet(0, 0), Packet(MaxPacketSamples, 0)>>,
                            <<Packet(1, 0), Packet(MaxPacketSamples, 0)>> } },
        cut \in Cuts }

CallLive == pc = "idle" /\ \E a \in PktCalls : Enter(a)

InitLive == \E f \in WholeFiles \cup CutFiles \cup BadFiles \cup BadSentinelFiles : InitWith(f)
NextLive == CallLive \/ Steps
\* a read that has begun is run to its end: the interpreter takes the next
\* step of the call, each of which moves pc or logs a packet operation
SpecLive == InitLive /\ [][NextLive]_vars /\ WF_<<pc, io>>(Steps)

\* ------------------------------------------------------------------------
\* A caller that reads the same file again
\* ------------------------------------------------------------------------
RetryFiles ==
    { MkFile("NEURALCD", 1, 30000, 7, ids, <<Packet(1, 0), Packet(2, 0)>>, <<>>) :
        ids \in UNION {{DistinctIds(n), RepeatedIds(n)} : n \in {2, MaxChannels}} }

FirstSelections ==
    {<<Some(es), None>> : es \in SeqsUpTo(ElectrodeVals, 1, 2)}
        \cup {<<None, Some(cs)>> : cs \in SeqsUpTo(0..MaxChannels, 1, 2)}
        \cup {<<None, None>>}

FirstCalls ==
    { Arg(s[1], s[2], 2, mode) : s \in FirstSelections, mode \in {"last", "all"} }
        \cup {Arg(None, None, 2, "first"), Arg(None, None, 2, "middle")}

\* zero-based in-file index of electrode e
PositionOf(ids, e) == (CHOOSE i \in 1..Len(ids) : ids[i] = e) - 1

\* the channel request that names the electrodes of es by their in-file index
RECURSIVE EquivalentChannels(_, _)
EquivalentChannels(es, ids) ==
    IF es = <<>> THEN <<>>
    ELSE IF Head(es) \in Range(ids)
         THEN <<PositionOf(ids, Head(es))>> \o EquivalentChannels(Tail(es), ids)
         ELSE EquivalentChannels(Tail(es), ids)

FileIds(f) == [i \in 1..f.n_channels |-> f.channel_records[i].electrode_id]

\* what the caller asks next: the first request again, the same electrodes by
\* channel index, the same electrodes with a channel request beside them, or
\* a selection that is not in the file
LaterCalls(first, f) ==
    {first}
        \cup { [first EXCEPT !.channels = Some(cs)] :
               cs \in IF Truthy(first.electrodes) THEN {<<0>>, <<f.n_channels>>} ELSE {} }
        \cup { [first EXCEPT !.electrodes = None,
                             !.channels = Some(EquivalentChannels(first.electrodes.val, FileIds(f)))] :
               x \in IF Truthy(first.electrodes) THEN {0} ELSE {} }
        \cup { [first EXCEPT !.electrodes = s[1], !.channels = s[2]] :
               s \in { <<Some(<<9>>), None>>, <<Some(<<9>>), Some(<<0>>)>>,
                       <<None, Some(<<f.n_channels, f.n_channels + 1>>)>> } }

CallFirst == pc = "idle" /\ \E a \in FirstCalls : Enter(a)
CallAgain ==
    /\ pc \in {"done", "raised"}
    /\ Len(hist) < MaxCalls
    /\ \E a \in LaterCalls(hist[1].call, file) : Enter(a)

InitRetry == \E f \in RetryFiles : InitWith(f)
NextRetry == CallFirst \/ CallAgain \/ Steps
SpecRetry == InitRetry /\ [][NextRetry]_vars

\* ------------------------------------------------------------------------
\* spikedetect.py: numbers
\* ------------------------------------------------------------------------
\* Real numbers are kept as integers.  A window bound is in microseconds
\* (the source has milliseconds), a sigma multiplier in tenths, a noise
\* estimate sd in units of 1/(4 * 0.6745) = 1/2.698, so that a threshold
\* sd * n_sigmas * direction is in units of 1/26.98.  A sample x is 26.98 * x
\* of these units: hundred times that is SampleScale * x.
SampleScale == 2698
ThresholdScale == 100
MicrosPerMilli == 1000

Abs(v) == IF v < 0 THEN -v ELSE v
Max(a, b) == IF a > b THEN a ELSE b

\* int16 arithmetic wraps
Wrap16(v) == ((v + 32768) % 65536) - 32768

\* variant: the lower bound excludes a sample equal to it
SampleGE_Strict(x, t) == SampleScale * x > ThresholdScale * t

\* x >= t and x <= t for an int16 sample x and a threshold t
SampleGE(x, t) == SampleScale * x >= ThresholdScale * t
SampleLE(x, t) == SampleScale * x <= ThresholdScale * t

\* the k-th smallest entry of a non-empty sequence
Kth(s, k) ==
    CHOOSE v \in Range(s) :
        /\ Cardinality({i \in 1..Len(s) : s[i] < v}) < k
        /\ Cardinality({i \in 1..Len(s) : s[i] <= v}) >= k

\* twice np.median(s)
Median2(s) ==
    LET n == Len(s)
    IN IF n % 2 = 1 THEN 2 * Kth(s, (n + 1) \div 2)
       ELSE Kth(s, n \div 2) + Kth(s, n \div 2 + 1)

\* np.rint(num / den), den > 0: the nearest integer, ties to even
Rint(num, den) ==
    LET q == num \div den
        r == num % den
    IN IF 2 * r > den \/ (2 * r = den /\ q % 2 = 1) THEN q + 1 ELSE q

\* s[start:stop] of Python, zero-based, negative indices counted from the end
PySlice(s, start, stop) ==
    LET n == Len(s)
        lo == IF start < 0 THEN Max(start + n, 0) ELSE Min(start, n)
        hi == IF stop < 0 THEN Max(stop + n, 0) ELSE Min(stop, n)
    IN IF hi <= lo THEN <<>> ELSE SubSeq(s, lo + 1, hi)

\* data[:, c] of a sample-major matrix, c zero-based
Column(d, c) == [r \in 1..d.shape[1] |-> d.rows[r][c + 1]]

\* ------------------------------------------------------------------------
\* NumPy buffers
\* ------------------------------------------------------------------------
\* what fresh memory may hold
UninitializedValues == {0, 21845}

\* np.empty((rows, cols)), C order: memory holding whatever it held, g
Empty2(rows, cols, g) == [shape |-> <<rows, cols>>, flat |-> [k \in 1..(rows * cols) |-> g]]
\* np.empty((n,))
Empty1(n, g) == [k \in 1..n |-> g]

\* variant: the row written is the one of the candidate, not the next free one
SetRow_AtCandidate(a, i, w) ==
    LET cols == a.shape[2]
    IN [a EXCEPT !.flat = [k \in 1..Len(a.flat) |->
                             IF k > i_peak * cols /\ k <= (i_peak + 1) * cols
                             THEN w[k - i_peak * cols] ELSE a.flat[k]]]

\* a[i, :] = w, i zero-based, w of the row's length
SetRow(a, i, w) ==
    LET cols == a.shape[2]
    IN [a EXCEPT !.flat = [k \in 1..Len(a.flat) |->
                             IF k > i * cols /\ k <= (i + 1) * cols
                             THEN w[k - i * cols] ELSE a.flat[k]]]

\* variant: the trim keeps the rows at the end of the buffer
Resize2_KeepsTail(a, rows, cols) ==
    LET drop == Len(a.flat) - rows * cols
    IN [shape |-> <<rows, cols>>,
        flat |-> [k \in 1..(rows * cols) |->
                    IF k + drop >= 1 THEN a.flat[k + drop] ELSE 0]]

\* a.resize((rows, cols)): the memory in order, cut or zero-filled, reshaped
Resize2(a, rows, cols) ==
    [shape |-> <<rows, cols>>,
     flat |-> [k \in 1..(rows * cols) |-> IF k <= Len(a.flat) THEN a.flat[k] ELSE 0]]

\* variant: the trim keeps the entries at the end of the buffer
Resize1_KeepsTail(a, n) == [k \in 1..n |-> a[k + Len(a) - n]]

\* a.resize((n,)) of a one-dimensional array
Resize1(a, n) == [k \in 1..n |-> IF k <= Len(a) THEN a[k] ELSE 0]

\* a[i, :], i zero-based
RowOf(a, i) == SubSeq(a.flat, i * a.shape[2] + 1, (i + 1) * a.shape[2])

\* numerator / denominator, not evaluated
Ratio(num, den) == <<num, den>>

\* ------------------------------------------------------------------------
\* SpikeDetectConfig
\* ------------------------------------------------------------------------
\* set_sd
SetSd(cfg, value) ==
    IF ~value.some
    THEN [cfg EXCEPT !.sd = None, !.threshold = 0,
                     !.threshold_return = None, !.threshold_reject = None]
    ELSE [cfg EXCEPT !.sd = value,
                     !.threshold = value.val * cfg.n_sigmas * cfg.direction,
                     !.threshold_return =
                         IF ~cfg.n_sigmas_return.some THEN None
                         ELSE Some(value.val * cfg.n_sigmas_return.val * cfg.direction),
                     !.threshold_reject =
                         IF ~cfg.n_sigmas_reject.some THEN None
                         ELSE Some(value.val * cfg.n_sigmas_reject.val * cfg.direction)]

\* SpikeDetectConfig(direction, n_sigmas, n_sigmas_return, n_sigmas_reject,
\* waveform_window, sd)
NewConfig(direction, n_sigmas, n_sigmas_return, n_sigmas_reject, waveform_window, sd) ==
    SetSd([ direction |-> IF direction > 0 THEN 1 ELSE -1,
            n_sigmas |-> n_sigmas,
            n_sigmas_return |-> n_sigmas_return,
            n_sigmas_reject |-> n_sigmas_reject,
            waveform_window |-> waveform_window,
            sd |-> None,
            threshold |-> 0,
            threshold_return |-> None,
            threshold_reject |-> None ], sd)

\* ------------------------------------------------------------------------
\* estimate_sd
\* ------------------------------------------------------------------------
\* variant: one estimate, that of the first column, for every channel
EstimateSd_FirstColumn(d) ==
    [c \in 1..d.shape[2] |->
        LET col == Column(d, 0)
            med2 == Median2(col)
        IN Median2([r \in 1..Len(col) |-> Abs(2 * col[r] - med2)])]

EstimateSd(d) ==
    [c \in 1..d.shape[2] |->
        LET col == Column(d, c - 1)
            med2 == Median2(col)
        IN Median2([r \in 1..Len(col) |-> Abs(2 * col[r] - med2)])]

\* ------------------------------------------------------------------------
\* scipy.signal.find_peaks(x, height=...)
\* ------------------------------------------------------------------------
\* end of the run of samples equal to x[i] that starts at i (zero-based),
\* not looking at the last sample
RECURSIVE PlateauEnd(_, _, _)
PlateauEnd(x, i, ahead) ==
    IF ahead < Len(x) - 1 /\ x[ahead + 1] = x[i + 1] THEN PlateauEnd(x, i, ahead + 1)
    ELSE ahead

\* the local maxima, zero-based: a sample, or the middle of a run of equal
\* samples, higher than what is before and after it
RECURSIVE LocalMaxima(_, _, _)
LocalMaxima(x, i, acc) ==
    IF i >= Len(x) - 1 THEN acc
    ELSE IF x[i] < x[i + 1]
         THEN LET ahead == PlateauEnd(x, i, i + 1)
              IN IF x[ahead + 1] < x[i + 1]
                 THEN LocalMaxima(x, ahead + 1, Append(acc, (i + ahead - 1) \div 2))
                 ELSE LocalMaxima(x, i + 1, acc)
         ELSE LocalMaxima(x, i + 1, acc)

\* height = hmin, or height = (hmin, hmax) when hmax is given
FindPeaks(x, hmin, hmax) ==
    SelectSeq(LocalMaxima(x, 1, <<>>),
              LAMBDA p : /\ SampleGE(x[p + 1], hmin)
                         /\ hmax.some => SampleLE(x[p + 1], hmax.val))

\* ------------------------------------------------------------------------
\* __validate_waveform
\* ------------------------------------------------------------------------
\* variant: the samples before the peak count too
ValidateWaveform_WholeWindow(waveform, center_index, threshold_return, direction, n_spw) ==
    IF Len(waveform) # n_spw THEN FALSE
    ELSE IF ~threshold_return.some THEN TRUE
    ELSE \E k \in 1..Len(waveform) :
            SampleLE(Wrap16(waveform[k] * direction), threshold_return.val * direction)

ValidateWaveform(waveform, center_index, threshold_return, direction, n_spw) ==
    IF Len(waveform) # n_spw THEN FALSE
    ELSE IF ~threshold_return.some THEN TRUE
    ELSE LET after == PySlice(waveform, center_index, Len(waveform))
         IN \E k \in 1..Len(after) :
               SampleLE(Wrap16(after[k] * direction), threshold_return.val * direction)

\* ------------------------------------------------------------------------
\* SpikeData.__init__
\* ------------------------------------------------------------------------
NewSpikeData(channel, sample_rate, electrode, detect_config) ==
    [ channel |-> channel,
      sample_rate |-> sample_rate,
      electrode |-> electrode,
      sample_indices |-> None,
      waveforms |-> None,
      timestamps |-> None,
      waveform_timestamps |-> None,
      detect_config |-> detect_config ]

\* ------------------------------------------------------------------------
\* find_waveforms, statement group by statement group
\* ------------------------------------------------------------------------
\* variant: the window bounds are cut to whole samples, not rounded
WindowSamples_Truncated(waveform_window, sample_rate) ==
    LET cut(v) == IF v >= 0 THEN v \div (MicrosPerMilli * 1000)
                  ELSE -((-v) \div (MicrosPerMilli * 1000))
    IN <<cut(waveform_window[1] * sample_rate), cut(waveform_window[2] * sample_rate)>>

\* line 90
WindowSamples(waveform_window, sample_rate) ==
    << Rint(waveform_window[1] * sample_rate, MicrosPerMilli * 1000),
       Rint(waveform_window[2] * sample_rate, MicrosPerMilli * 1000) >>

\* the window line 90 converts: the waveform_window argument
WindowOf(a) == a.waveform_window

FwOutcome(r, e) == [call |-> fw_call, ret |-> r, exc |-> e]

\* lines 82-96
FwEnter(a) ==
    LET sd == EstimateSd(a.data)
        n_channels == a.data.shape[2]
        cfgs == [c \in 1..n_channels |->
                   IF ~a.config.some
                   THEN NewConfig(a.direction, a.n_sigmas, a.n_sigmas_return,
                                  a.n_sigmas_reject, a.waveform_window, Some(sd[c]))
                   ELSE SetSd(a.config.val, Some(sd[c]))]
        w == WindowSamples(WindowOf(a), a.sample_rate)
    IN /\ fw_call' = a
       /\ configs' = cfgs
       /\ waveform_window_samples' = w
       /\ n_samples_per_waveform' = -w[1] + w[2] + 1
       /\ spike_data' = [c \in 1..n_channels |->
                           NewSpikeData(c - 1, a.sample_rate, None, cfgs[c])]
       /\ chn' = 0
       /\ i_peaks' = <<>>
       /\ i_peak' = 0
       /\ i_waveform' = 0
       /\ fw_exc' = NoExc
       /\ fw_pc' = "channel"
       /\ UNCHANGED <<fw_hist, reader, sorter>>

\* lines 104-107: the peaks of channel c (zero-based) under config cfg
ChannelPeaks(d, c, cfg) ==
    LET col == Column(d, c)
        x == [r \in 1..Len(col) |-> Wrap16(col[r] * cfg.direction)]
    IN FindPeaks(x, cfg.threshold * cfg.direction,
                 IF cfg.threshold_reject.some
                 THEN Some(cfg.threshold_reject.val * cfg.direction) ELSE None)

\* lines 99-116: the top of the loop over the channels
FwChannel ==
    /\ fw_pc = "channel"
    /\ chn < fw_call.data.shape[2]
    /\ LET peaks == ChannelPeaks(fw_call.data, chn, configs[chn + 1])
           n_waveforms == Len(peaks)
           w == waveform_window_samples
       IN IF n_samples_per_waveform < 0
          THEN /\ fw_pc' = "raised"
               /\ fw_exc' = Exc("ValueError", "empty")
               /\ fw_hist' = Append(fw_hist, FwOutcome(<<>>, fw_exc'))
               /\ UNCHANGED <<fw_call, configs, waveform_window_samples,
                              n_samples_per_waveform, spike_data, chn, i_peaks, i_peak,
                              i_waveform, reader, sorter>>
          ELSE /\ \E g \in UninitializedValues :
                    spike_data' =
                        [spike_data EXCEPT
                            ![chn + 1].waveforms =
                                Empty2(n_waveforms, n_samples_per_waveform, g),
                            ![chn + 1].sample_indices = Empty1(n_waveforms, g),
                            ![chn + 1].waveform_timestamps =
                                [t \in 1..n_samples_per_waveform |->
                                    Ratio(w[1] + t - 1, fw_call.sample_rate)]]
               /\ i_peaks' = peaks
               /\ i_peak' = 0
               /\ i_waveform' = 0
               /\ fw_pc' = "peak"
               /\ UNCHANGED <<fw_call, configs, waveform_window_samples,
                              n_samples_per_waveform, chn, fw_exc, fw_hist, reader, sorter>>

\* line 118: the window around sample i_sample of channel c
ExtractWaveform(d, c, i_sample, w) ==
    PySlice(Column(d, c), i_sample + w[1], i_sample + w[2] + 1)

\* lines 117-122: one iteration of the loop over the peaks
FwPeak ==
    /\ fw_pc = "peak"
    /\ i_peak < Len(i_peaks)
    /\ LET i_sample == i_peaks[i_peak + 1]
           cfg == configs[chn + 1]
           waveform == ExtractWaveform(fw_call.data, chn, i_sample, waveform_window_samples)
       IN IF ValidateWaveform(waveform, -waveform_window_samples[1], cfg.threshold_return,
                              cfg.direction, n_samples_per_waveform)
          THEN /\ spike_data' =
                      [spike_data EXCEPT
                          ![chn + 1].waveforms = SetRow(@, i_waveform, waveform),
                          ![chn + 1].sample_indices = [@ EXCEPT ![i_waveform + 1] = i_sample]]
               /\ i_waveform' = i_waveform + 1
          ELSE UNCHANGED <<spike_data, i_waveform>>
    /\ i_peak' = i_peak + 1
    /\ UNCHANGED <<fw_call, fw_pc, configs, waveform_window_samples, n_samples_per_waveform,
                   chn, i_peaks, fw_exc, fw_hist, reader, sorter>>

\* lines 125-132: the buffers are trimmed, the timestamps computed
FwCull ==
    /\ fw_pc = "peak"
    /\ i_peak = Len(i_peaks)
    /\ LET n_waveforms == Len(i_peaks)
           sdc == spike_data[chn + 1]
           wf == IF i_waveform < n_waveforms
                 THEN Resize2(sdc.waveforms, i_waveform, n_samples_per_waveform)
                 ELSE sdc.waveforms
           si == IF i_waveform < n_waveforms
                 THEN Resize1(sdc.sample_indices, i_waveform)
                 ELSE sdc.sample_indices
       IN spike_data' =
              [spike_data EXCEPT
                  ![chn + 1].waveforms = wf,
                  ![chn + 1].sample_indices = si,
                  ![chn + 1].timestamps =
                      [k \in 1..Len(si) |-> Ratio(si[k], fw_call.sample_rate)]]
    /\ chn' = chn + 1
    /\ fw_pc' = "channel"
    /\ UNCHANGED <<fw_call, configs, waveform_window_samples, n_samples_per_waveform,
                   i_peaks, i_peak, i_waveform, fw_exc, fw_hist, reader, sorter>>

\* line 134
FwReturn ==
    /\ fw_pc = "channel"
    /\ chn = fw_call.data.shape[2]
    /\ fw_pc' = "done"
    /\ fw_hist' = Append(fw_hist, FwOutcome(spike_data, NoExc))
    /\ UNCHANGED <<fw_call, configs, waveform_window_samples, n_samples_per_waveform,
                   spike_data, chn, i_peaks, i_peak, i_waveform, fw_exc, reader, sorter>>

FwSteps ==
    \/ FwChannel
    \/ FwPeak
    \/ FwCull
    \/ FwReturn

\* ------------------------------------------------------------------------
\* The recordings and the calls of the detector
\* ------------------------------------------------------------------------
MaxSamples == 5         \* longest recording drawn in full
MaxRuns == 2            \* most successive find_waveforms calls on one recording

SignalVals == {-5, -4, 0}
ShortSamples == 3
Signals == [1..MaxSamples -> SignalVals] \cup [1..ShortSamples -> SignalVals]
\* three troughs, the first of which does not return to baseline within a
\* sample; a trough at each end of a longer recording
LongSignals ==
    { <<0, -5, -4, -5, 0, -5, 0>>, <<0, -5, 0, -4, -5, -4, 0, -5, 0>> }
\* a trough followed by a sample at the bottom of the int16 range
SaturatedSignals == { <<0, -5, -32768, 0, 0>>, <<0, -5, -32768, -5, 0>> }
\* a second channel: a trough at every other sample
SecondColumn(n) == [r \in 1..n |-> IF r % 2 = 0 THEN -5 ELSE 0]

\* the matrix with these columns
DataOf(cols) ==
    [ shape |-> <<Len(cols[1]), Len(cols)>>,
      rows |-> [r \in 1..Len(cols[1]) |-> [c \in 1..Len(cols) |-> cols[c][r]]] ]

DetectData ==
    {DataOf(<<s>>) : s \in Signals \cup LongSignals \cup SaturatedSignals}
        \cup {DataOf(<<s, SecondColumn(Len(s))>>) : s \in [1..ShortSamples -> SignalVals] \cup LongSignals}
        \cup {DataOf(<<SecondColumn(Len(s)), s>>) : s \in [1..ShortSamples -> SignalVals]}

\* windows in microseconds; at 1000 Hz they are (-1, 1), (-2, 0), (-2, -1),
\* (-4, -3), (0, 1), (1, 2), (0, 0) and (1, -1) in samples
AroundPeak == <<-1000, 1000>>
DefaultWindow == <<-500, 500>>
OtherWindows ==
    {<<-1500, 500>>, <<-2000, -1000>>, <<-4000, -3000>>, <<0, 1000>>, <<1000, 2000>>}
InvertedWindow == <<1000, -1000>>

\* a config as the caller builds it: no sd yet
UserConfigs ==
    { NewConfig(-1, 10, Some(10), None, AroundPeak, None) }

DetectSettings ==
    { [direction |-> d, n_sigmas |-> 10, n_sigmas_return |-> r, n_sigmas_reject |-> j,
       waveform_window |-> AroundPeak, config |-> None] :
         d \in {-1, 1}, r \in {None, Some(10)}, j \in {None, Some(30)} }
    \cup
    { [direction |-> -1, n_sigmas |-> 10, n_sigmas_return |-> r, n_sigmas_reject |-> None,
       waveform_window |-> w, config |-> None] :
         r \in {None, Some(10)}, w \in OtherWindows }
    \cup
    { [direction |-> 0, n_sigmas |-> 10, n_sigmas_return |-> None, n_sigmas_reject |-> None,
       waveform_window |-> InvertedWindow, config |-> None] }
    \cup
    { [direction |-> 1, n_sigmas |-> 30, n_sigmas_return |-> None, n_sigmas_reject |-> Some(30),
       waveform_window |-> DefaultWindow, config |-> Some(c)] : c \in UserConfigs }

DetectCalls ==
    { [ data |-> d, sample_rate |-> 1000, electrode_map |-> None,
        direction |-> s.direction, n_sigmas |-> s.n_sigmas,
        n_sigmas_return |-> s.n_sigmas_return, n_sigmas_reject |-> s.n_sigmas_reject,
        waveform_window |-> s.waveform_window, config |-> s.config ] :
        d \in DetectData, s \in DetectSettings }

\* the return threshold a call works with, and the call without it
ReturnSigmas(a) == IF a.config.some THEN a.config.val.n_sigmas_return ELSE a.n_sigmas_return
WithoutReturn(a) ==
    IF a.config.some
    THEN [a EXCEPT !.config = Some([a.config.val EXCEPT !.n_sigmas_return = None])]
    ELSE [a EXCEPT !.n_sigmas_return = None]

FwCall == fw_pc = "idle" /\ \E a \in DetectCalls : FwEnter(a)
\* the caller detects again on the same recording, without return threshold
FwCallAgain ==
    /\ fw_pc = "done"
    /\ Len(fw_hist) < MaxRuns
    /\ ReturnSigmas(fw_hist[1].call).some
    /\ FwEnter(WithoutReturn(fw_hist[1].call))

\* a third column: one trough, at the second sample
ThirdColumn(n) == [r \in 1..n |-> IF r = 2 THEN -4 ELSE 0]

\* recordings that have a column of the two-channel recording d: d with its
\* columns swapped, and d with one column replaced
SharingColumn(d) ==
    LET a == Column(d, 0)
        b == Column(d, 1)
        t == ThirdColumn(d.shape[1])
    IN {DataOf(<<b, a>>), DataOf(<<a, t>>), DataOf(<<t, b>>)} \ {d}

\* the caller detects once more, with the same parameters, on a recording
\* that shares a column with the first one
FwCallOther ==
    /\ fw_pc = "done"
    /\ Len(fw_hist) = 1
    /\ fw_hist[1].call.data.shape[2] = 2
    /\ \E e \in SharingColumn(fw_hist[1].call.data) :
          FwEnter([fw_hist[1].call EXCEPT !.data = e])

NoFile == [file_type_id |-> "none"]
InitDetect == InitWith(NoFile)
NextDetect == FwCall \/ FwCallAgain \/ FwCallOther \/ FwSteps
SpecDetect == InitDetect /\ [][NextDetect]_vars

\* ------------------------------------------------------------------------
\* spikesorting.py: move_clusters and remap_clusters
\* ------------------------------------------------------------------------
\* del s[a:b] and s[a:a] = items of a Python list, zero-based
PyDelete(s, a, b) == PySlice(s, 0, a) \o PySlice(s, Max(a, b), Len(s))
PyInsert(s, a, items) == PySlice(s, 0, a) \o items \o PySlice(s, a, Len(s))

\* labels.max(initial=-1)
MaxLabel(ls) == IF ls = <<>> THEN -1 ELSE CHOOSE m \in Range(ls) : \A v \in Range(ls) : v <= m

\* the loop of lines 108-113: entries equal to old_values[i] in the labels
\* as they were become new_values[i], for i in turn
RECURSIVE RemapFrom(_, _, _, _, _)
RemapFrom(old_labels, new_labels, old_values, new_values, i) ==
    IF i > Len(old_values) THEN new_labels
    ELSE LET ov == old_values[i]
             nv == new_values[i]
         IN RemapFrom(old_labels,
                      IF ov = nv THEN new_labels
                      ELSE [e \in 1..Len(new_labels) |->
                              IF old_labels[e] = ov THEN nv ELSE new_labels[e]],
                      old_values, new_values, i + 1)

\* remap_clusters: the array returned, or the error
RemapClusters(ls, old_values, new_values) ==
    IF Len(old_values) # Len(new_values)
    THEN [exc |-> Exc("ValueError", "remap")]
    ELSE [exc |-> NoExc, labels |-> RemapFrom(ls, ls, old_values, new_values, 1)]

\* lines 71-82: the list new_values that move_clusters hands to remap_clusters
NewValues(n_clusters, source, count, destination) ==
    LET old_values == [i \in 1..n_clusters |-> i - 1]
        moved == PySlice(old_values, source, source + count)
    IN IF source > destination
       THEN PyInsert(PyDelete(old_values, source, source + count), destination, moved)
       ELSE PyDelete(PyInsert(old_values, destination, moved), source, source + count)

\* move_clusters
MoveClusters(a) ==
    /\ mc_call' = a
    /\ IF a.source = a.destination
       THEN /\ mc_pc' = "done"
            /\ mc_ret' = [kind |-> "None"]
            /\ labels' = a.labels
       ELSE LET n_clusters == MaxLabel(a.labels) + 1
                old_values == [i \in 1..n_clusters |-> i - 1]
                r == RemapClusters(a.labels, old_values,
                                   NewValues(n_clusters, a.source, a.count, a.destination))
            IN IF r.exc # NoExc
               THEN /\ mc_pc' = "raised"
                    /\ mc_ret' = [kind |-> "none"]
                    /\ labels' = a.labels
               ELSE /\ mc_pc' = "done"
                    /\ mc_ret' = [kind |-> "array", labels |-> r.labels,
                                  is_argument |-> a.in_place]
                    /\ labels' = IF a.in_place THEN r.labels ELSE a.labels
    /\ UNCHANGED <<reader, detector>>

\* ------------------------------------------------------------------------
\* The label arrays and the moves
\* ------------------------------------------------------------------------
MaxClusters == 4        \* most clusters
MaxExtraLabels == 1     \* most waveforms beyond one per cluster

\* every cluster 0..n-1 has a waveform; up to MaxExtraLabels more
LabelArrays ==
    UNION { { [i \in 1..n |-> i - 1] \o extra : extra \in SeqsUpTo(0..(n - 1), 0, MaxExtraLabels) } :
            n \in 1..MaxClusters }

\* moves of count clusters from source, inside the clusters there are, to a
\* destination 0..n
MoveCalls ==
    { [labels |-> ls, source |-> s, count |-> c, destination |-> d, in_place |-> p] :
        ls \in LabelArrays, s \in 0..(MaxClusters - 1), c \in 1..MaxClusters,
        d \in 0..MaxClusters, p \in BOOLEAN }

McCall ==
    /\ mc_pc = "idle"
    /\ \E a \in MoveCalls :
          /\ a.source + a.count <= MaxLabel(a.labels) + 1
          /\ a.destination <= MaxLabel(a.labels) + 1
          /\ MoveClusters(a)

InitSorter == InitWith(NoFile)
NextSorter == McCall
SpecSorter == InitSorter /\ [][NextSorter]_vars

\* ------------------------------------------------------------------------
\* Properties
\* ------------------------------------------------------------------------
ReadOps == SelectSeq(io, LAMBDA o : o.op = "read")
ScanOps == SelectSeq(io, LAMBDA o : o.op = "scan")
AllChannels(n) == [i \in 1..n |-> i - 1]
Distinct(s) == \A i, j \in 1..Len(s) : i # j => s[i] # s[j]
PastValidation == pc \in {"dispatch", "all_loop", "last_loop", "tail", "done"}

\* C1: every recording a read returns has as many channels as electrodes as
\* channels_info entries as data columns, in every packet mode and for every
\* selection.
C1_ParallelLengths ==
    pc = "done" =>
        \A k \in 1..Len(ret.cds) :
            LET cd == ret.cds[k]
            IN /\ Len(cd.channels) = Len(cd.electrodes)
               /\ Len(cd.electrodes) = Len(cd.channels_info)
               /\ Len(cd.channels_info) = cd.data.shape[2]
               /\ \A r \in 1..Len(cd.data.rows) : Len(cd.data.rows[r]) = cd.data.shape[2]

\* a read in 'all' mode by two electrodes of which one is in the file
C1_Witness ==
    /\ pc = "done"
    /\ call.packet_mode = "all"
    /\ Truthy(call.electrodes) /\ Len(call.electrodes.val) = 2
    /\ Len(ret.cds) = 2
    /\ ret.cds[2].data.shape = <<2, 1>>

\* C2: column j of the returned data holds the samples of in-file channel
\* channels[j], for every resolved channel list (any order, repeats too).
C2_ColumnsFollowChannels ==
    pc = "done" =>
        \A k \in 1..Len(ret.cds) :
            LET cd == ret.cds[k]
            IN \A r \in 1..Len(cd.data.rows) : \A j \in 1..Len(cd.channels) :
                  cd.channels[j] >= 0 =>
                      cd.data.rows[r][j] = SampleValue(cd.packet_index, r - 1, cd.channels[j])

\* a channel request of distinct in-range indices, fewer than the file has
ProperSubsetRequest ==
    /\ ~Truthy(call.electrodes)
    /\ Truthy(call.channels)
    /\ \A i \in 1..Len(call.channels.val) :
          call.channels.val[i] >= 0 /\ call.channels.val[i] < file.n_channels
    /\ Distinct(call.channels.val)
    /\ Len(call.channels.val) < file.n_channels

\* C3: for a request of distinct in-range channels that is a proper subset of
\* the file's, the matrix read through the gather path equals, column for
\* column, the columns of the matrix the bulk read of all channels gives for
\* the same packet and sample count.
C3_GatherEqualsBulkColumns ==
    (pc = "done" /\ ProperSubsetRequest) =>
        \A k \in 1..Len(ret.cds) :
            LET cd == ret.cds[k]
                rd == ReadOps[k]
                full == ReadNextPacket(file, rd.pos, AllChannels(file.n_channels), rd.n,
                                       file.n_channels)
            IN /\ full.exc = NoExc
               /\ cd.data.shape = <<full.data.shape[1], Len(cd.channels)>>
               /\ \A r \in 1..cd.data.shape[1] : \A j \in 1..Len(cd.channels) :
                     cd.data.rows[r][j] = full.data.rows[r][cd.channels[j] + 1]

\* channels 2 and 0 of a three-channel file, two rows of the last packet
C3_Witness ==
    /\ pc = "done"
    /\ ProperSubsetRequest
    /\ call.channels.val = <<2, 0>>
    /\ call.packet_mode = "last"
    /\ ret.cds[1].data.shape = <<2, 2>>

\* the four fields of the recordings of an outcome that C4 compares
SelectionView(o) ==
    [ kind |-> o.ret.kind,
      cds |-> [k \in 1..Len(o.ret.cds) |->
                 [ data |-> o.ret.cds[k].data,
                   channels |-> o.ret.cds[k].channels,
                   electrodes |-> o.ret.cds[k].electrodes,
                   channels_info |-> o.ret.cds[k].channels_info ]] ]

\* call b asks by channel index for what call a asks by electrode ID
SameByChannels(a, b) ==
    /\ Truthy(a.electrodes)
    /\ Range(a.electrodes.val) \cap Range(FileIds(file)) # {}
    /\ ~b.electrodes.some
    /\ b.channels = Some(EquivalentChannels(a.electrodes.val, FileIds(file)))
    /\ b.n_samples = a.n_samples
    /\ b.packet_mode = a.packet_mode

\* C4: on a file whose electrode IDs are pairwise distinct, a read by
\* electrode IDs of which at least one is in the file and the read by the
\* in-file indices of those electrodes, in the order of the request, return
\* identical data, channels, electrodes and channels_info.
C4_ElectrodesEqualChannels ==
    \A i, j \in 1..Len(hist) :
        (Distinct(FileIds(file)) /\ SameByChannels(hist[i].call, hist[j].call)) =>
            /\ hist[i].exc = NoExc
            /\ hist[j].exc = NoExc
            /\ SelectionView(hist[i]) = SelectionView(hist[j])

\* electrodes 5 and 1 asked in that order, then channels 1 and 0
C4_Witness ==
    /\ Len(hist) >= 2
    /\ Distinct(FileIds(file))
    /\ hist[1].call.electrodes = Some(<<5, 1>>)
    /\ SameByChannels(hist[1].call, hist[2].call)
    /\ hist[2].ret.kind = "list"
    /\ Len(hist[2].ret.cds) = 2

\* C5: a request that mixes values in the file and values not in it resolves
\* to the request without the values not in the file, in request order (for
\* channels the indices below the channel count, for electrodes the IDs the
\* file has), and no error is raised as long as one value survives.
C5_DropsOnlyUnavailable ==
    LET n == file.n_channels
        ids == Range(FileIds(file))
        cs == call.channels.val
        es == call.electrodes.val
        mixedChannels == /\ ~Truthy(call.electrodes)
                         /\ Truthy(call.channels)
                         /\ \E i \in 1..Len(cs) : cs[i] < n
                         /\ \E i \in 1..Len(cs) : cs[i] >= n
        mixedElectrodes == /\ Truthy(call.electrodes)
                           /\ \E i \in 1..Len(es) : es[i] \in ids
                           /\ \E i \in 1..Len(es) : es[i] \notin ids
    IN /\ mixedChannels =>
            /\ pc # "raised"
            /\ PastValidation => channels = SelectSeq(cs, LAMBDA c : c < n)
       /\ mixedElectrodes =>
            /\ pc # "raised"
            /\ PastValidation => electrodes = SelectSeq(es, LAMBDA e : e \in ids)

\* the request of call c resolves to no channel of file f
ResolvesEmpty(c, f) ==
    \/ /\ Truthy(c.electrodes)
       /\ Range(c.electrodes.val) \cap Range(FileIds(f)) = {}
    \/ /\ ~Truthy(c.electrodes)
       /\ Truthy(c.channels)
       /\ \A i \in 1..Len(c.channels.val) : c.channels.val[i] >= f.n_channels

\* C6: a read whose request resolves to the empty list fails with the
\* selection error, returns nothing and reads no packet; the read that
\* follows it returns what the same read returned before the failure.
C6_SelectionErrorLeavesNothing ==
    \A k \in 1..Len(hist) :
        ResolvesEmpty(hist[k].call, file) =>
            /\ hist[k].exc.type = "ValueError"
            /\ hist[k].exc.site \in {"electrodes", "channels"}
            /\ hist[k].ret = NoRet
            /\ hist[k].io = <<>>
            /\ (k > 1 /\ k < Len(hist) /\ hist[k + 1].call = hist[1].call) =>
                  /\ hist[k + 1].ret = hist[1].ret
                  /\ hist[k + 1].exc = hist[1].exc
                  /\ hist[k + 1].warns = hist[1].warns

\* a read without selection, a failed read by electrode 9, the first read again
C6_Witness ==
    /\ Len(hist) = 3
    /\ hist[1].ret.kind = "list" /\ Len(hist[1].ret.cds) = 2
    /\ ~hist[1].call.electrodes.some
    /\ ResolvesEmpty(hist[2].call, file)
    /\ hist[2].call.electrodes = Some(<<9>>)
    /\ hist[3].call = hist[1].call
    /\ hist[3].ret.kind = "list"

\* the packets of a file that scans to its end, and their sample counts
PacketCounts == [i \in 1..Len(file.packets) |-> file.packets[i].n]
LaterOffsetsZero == \A i \in 2..Len(file.packets) : file.packets[i].offset = 0
HeaderOrigin == file.time_ms * 1000

\* C7 as stated: in 'last' mode, with sample offset 0 on every packet after
\* the first, time_origin is the header's plus (samples of packets 0..k-2) /
\* sample_rate, and the header's unchanged for k = 1.
C7_OriginPlusSkippedSamples ==
    (pc = "done" /\ call.packet_mode = "last" /\ LaterOffsetsZero) =>
        ret.cds[1].time_origin =
            HeaderOrigin
              + TimedeltaMicros(SumSeq(SubSeq(PacketCounts, 1, Len(PacketCounts) - 1)),
                                file.raw_rate)

\* C7 amended: for k >= 2 time_origin is the header's plus the sum over
\* packets 0..k-2 of n_samples / sample_rate, each term rounded to a whole
\* microsecond; for k = 1 it is the header's plus sample_offset / sample_rate
\* of the packet, which is the header's when that offset is 0.
C7_OriginPlusRoundedSteps ==
    (pc = "done" /\ call.packet_mode = "last" /\ LaterOffsetsZero) =>
        LET k == Len(file.packets)
            steps == [i \in 1..(k - 1) |-> TimedeltaMicros(file.packets[i].n, file.raw_rate)]
        IN ret.cds[1].time_origin =
              IF k = 1
              THEN HeaderOrigin + (IF file.packets[1].offset > 0
                                   THEN TimedeltaMicros(file.packets[1].offset, file.raw_rate)
                                   ELSE 0)
              ELSE HeaderOrigin + SumSeq(steps)

\* three packets, the first two of one sample each: 33 + 33 microseconds
C7_Witness ==
    /\ pc = "done"
    /\ call.packet_mode = "last"
    /\ LaterOffsetsZero
    /\ Len(file.packets) = 3
    /\ file.packets[1].n = 1 /\ file.packets[2].n = 1
    /\ ret.cds[1].time_origin = HeaderOrigin + 66

RowsReturned == SumSeq([k \in 1..Len(ret.cds) |-> ret.cds[k].data.shape[1]])
RowsReadBefore(i) ==
    SumSeq([j \in 1..(i - 1) |-> IF io[j].op = "read" THEN io[j].n ELSE 0])

\* C8: in 'all' mode the rows of the returned recordings never sum to more
\* than max_samples, and no packet is scanned or read once max_samples
\* samples have been read.
C8_BudgetStopsReading ==
    (call.packet_mode = "all" /\ pc \in {"all_loop", "done"}) =>
        /\ pc = "done" => RowsReturned <= call.n_samples
        /\ \A i \in 1..Len(io) : RowsReadBefore(i) < call.n_samples

\* the packet a read in 'first' or 'last' mode returns
PacketRead ==
    IF call.packet_mode = "first" THEN file.packets[1] ELSE file.packets[Len(file.packets)]

\* C9: in 'first' and 'last' mode the returned data has min(requested count,
\* sample count of the packet read) rows.
C9_RowsAreClampedRequest ==
    (pc = "done" /\ call.packet_mode \in {"first", "last"}) =>
        LET cd == ret.cds[1]
            rows == Min(call.n_samples, PacketRead.n)
        IN /\ cd.data.shape[1] = rows
           /\ Len(cd.data.rows) = rows
           /\ cd.n_samples = rows

\* more rows asked than the last of two packets holds, and fewer than the
\* first packet holds
C9_Witness ==
    /\ pc = "done"
    /\ Len(file.packets) = 2
    /\ \/ /\ call.packet_mode = "last"
          /\ call.n_samples > PacketRead.n
          /\ ret.cds[1].data.shape[1] = PacketRead.n
          /\ PacketRead.n > 0
       \/ /\ call.packet_mode = "first"
          /\ call.n_samples < PacketRead.n
          /\ ret.cds[1].data.shape[1] = call.n_samples
          /\ call.n_samples > 0

\* C10: whenever more samples are asked of a packet than it holds, the read
\* does not raise, takes what the packet holds and warns of the truncation,
\* in every packet mode.
C10_TruncationWarns ==
    \A i \in 1..Len(io) :
        (io[i].op = "read" /\ io[i].asked > io[i].n) =>
            /\ "truncated" \in Range(warns)
            /\ ~(pc = "raised" /\ exc.site = "read")

\* the offset at which packet i of the file starts (i = number of packets + 1:
\* the offset after the last packet)
PacketOffset(f, i) ==
    f.bytes_in_header
      + Len(BodyBytes(f.file_type_id, SubSeq(f.packets, 1, i - 1), 0, f.n_channels))
NoSentinelAt(f, offset) == FileRead(f, offset, 1) # <<1>>
\* some packet offset up to the packet that ends at end of file has no 0x01
BadSentinelBeforeEof(f) ==
    \E i \in 1..(Len(f.packets) + 1) :
        /\ NoSentinelAt(f, PacketOffset(f, i))
        /\ \A j \in 1..(i - 1) : PacketOffset(f, j + 1) # FileSize(f)
\* a call that got to its packets
SelectionFailed == pc = "raised" /\ exc.site \in {"channels", "electrodes"}
SentinelOutcome ==
    /\ pc # "done"
    /\ ret = NoRet
    /\ (pc = "raised" /\ ~SelectionFailed) => exc = Exc("ValueError", "sentinel")

\* C11 as stated: when the packet at the header boundary ('first') or any
\* packet up to the one that ends at end of file ('last', 'all') does not
\* start with 0x01, no byte at the offset included, the call raises and
\* returns no recording, in 'all' mode not the ones already read either.
C11_BadSentinelRaises ==
    LET bad == IF call.packet_mode = "first"
               THEN NoSentinelAt(file, file.bytes_in_header)
               ELSE call.packet_mode \in {"last", "all"} /\ BadSentinelBeforeEof(file)
    IN bad => SentinelOutcome

\* C11 amended: the same, in 'all' mode for a request of at least one
\* sample; with n_samples <= 0 the 'all' loop scans no packet and the call
\* returns the empty list.
C11_BadSentinelRaisesWhenScanned ==
    LET bad == IF call.packet_mode = "first"
               THEN NoSentinelAt(file, file.bytes_in_header)
               ELSE \/ call.packet_mode = "last" /\ BadSentinelBeforeEof(file)
                    \/ /\ call.packet_mode = "all"
                       /\ call.n_samples >= 1
                       /\ BadSentinelBeforeEof(file)
    IN /\ bad => SentinelOutcome
       /\ (call.packet_mode = "all" /\ call.n_samples <= 0 /\ pc = "done") =>
              ret = [kind |-> "list", cds |-> <<>>] /\ io = <<>>

\* 'all' mode, two packets read, the third starts with a wrong byte
C11_Witness ==
    /\ pc = "raised"
    /\ call.packet_mode = "all"
    /\ exc = Exc("ValueError", "sentinel")
    /\ Len(file.packets) = 3 /\ file.packets[3].sentinel # 1
    /\ Len(cd_list) = 2
    /\ ret = NoRet

\* the error kind of a bad packet sentinel (line 298)
FormatErrorKind == "ValueError"

\* C12: an unsupported format tag, a bad packet sentinel and a period other
\* than 1 abort the read with one and the same error kind, and an empty
\* selection aborts it with another kind.
C12_FormatErrorsOneKind ==
    pc = "raised" =>
        /\ exc.site \in {"period", "file_type", "sentinel"} => exc.type = FormatErrorKind
        /\ exc.site \in {"channels", "electrodes"} => exc.type # FormatErrorKind

\* handles open after the first k events of the log
RECURSIVE OpenAfter(_, _)
OpenAfter(log, k) ==
    IF k = 0 THEN 0
    ELSE OpenAfter(log, k - 1) + (IF log[k].ev = "open" THEN 1 ELSE -1)
\* the helper calls of the call so far: the header read, then the packet
\* operations
HelperCalls ==
    (IF pc \in {"idle", "read_header"} THEN <<>> ELSE <<"header">>)
        \o [i \in 1..Len(io) |-> io[i].op]

\* C13: at most one handle on the file is open at any instant of a read;
\* the header read, every packet scan and every data read opens one handle
\* of its own and closes it before the next step starts; when the call
\* returns or raises, for whatever reason, no handle is open.
C13_HandlesAreScoped ==
    /\ \A k \in 0..Len(handles) : OpenAfter(handles, k) \in {0, 1}
    /\ OpenAfter(handles, Len(handles)) = 0
    /\ Len(handles) = 2 * Len(HelperCalls)
    /\ \A i \in 1..Len(HelperCalls) :
          /\ handles[2 * i - 1] = [ev |-> "open", by |-> HelperCalls[i]]
          /\ handles[2 * i] = [ev |-> "close", by |-> HelperCalls[i]]

\* a read in 'last' mode that scanned one packet and failed on the sentinel
\* of the next
C13_Witness ==
    /\ pc = "raised"
    /\ exc.site = "sentinel"
    /\ call.packet_mode = "last"
    /\ HelperCalls = <<"header", "scan", "scan">>
    /\ Len(handles) = 6

\* calls a and b ask for the same electrodes, sample count and packet mode
SameElectrodes(a, b) ==
    /\ Truthy(a.electrodes)
    /\ b.electrodes = a.electrodes
    /\ b.n_samples = a.n_samples
    /\ b.packet_mode = a.packet_mode

\* C14: when electrodes is given and non-empty, the outcome of the read is
\* the same whatever channels is (absent, valid indices, indices not in the
\* file); electrodes that all miss the file fail the read even beside a
\* valid channel request.
C14_ElectrodesDecide ==
    \A i, j \in 1..Len(hist) :
        SameElectrodes(hist[i].call, hist[j].call) =>
            /\ hist[i].ret = hist[j].ret
            /\ hist[i].exc = hist[j].exc
            /\ hist[i].warns = hist[j].warns
            /\ ResolvesEmpty(hist[i].call, file) =>
                  hist[i].exc = Exc("ValueError", "electrodes")

\* electrodes 6 and 5 read alone, then beside channel 0, then beside a
\* channel index the file does not have
C14_Witness ==
    /\ Len(hist) = 3
    /\ hist[1].call.electrodes = Some(<<6, 5>>)
    /\ ~hist[1].call.channels.some
    /\ hist[2].call.channels = Some(<<0>>)
    /\ hist[3].call.channels = Some(<<file.n_channels>>)
    /\ SameElectrodes(hist[1].call, hist[2].call)
    /\ SameElectrodes(hist[1].call, hist[3].call)
    /\ hist[3].ret.kind = "one"
    /\ hist[3].ret.cds[1].electrodes = <<6, 5>>

\* electrode 9, which no file has, asked beside channel 0
C14_WitnessMiss ==
    /\ Len(hist) >= 2
    /\ hist[2].call.electrodes = Some(<<9>>)
    /\ hist[2].call.channels = Some(<<0>>)
    /\ hist[2].exc = Exc("ValueError", "electrodes")

\* ------------------------------------------------------------------------
\* Properties of find_waveforms
\* ------------------------------------------------------------------------
\* the result of a call that returned
Returned == fw_pc = "done"
ChannelsOf(a) == 1..a.data.shape[2]
\* the last channel lost candidates to the cull and was trimmed
Trimmed == i_waveform < Len(i_peaks)

\* the candidates of channel c (one-based) of call a that pass validation
\* under config cfg and window w (in samples), in the order of detection
AcceptedPeaks(a, c, cfg, w) ==
    SelectSeq(ChannelPeaks(a.data, c - 1, cfg),
              LAMBDA p : ValidateWaveform(ExtractWaveform(a.data, c - 1, p, w), -w[1],
                                          cfg.threshold_return, cfg.direction,
                                          -w[1] + w[2] + 1))

\* C15: every waveform row of every SpikeData returned has -w0 + w1 + 1
\* samples, (w0, w1) being the window of the call in samples, rounded to the
\* nearest; so has waveform_timestamps; culled and trimmed or not.
C15_WaveformLength ==
    Returned =>
        LET a == fw_call
            w0 == Rint(a.waveform_window[1] * a.sample_rate, 1000000)
            w1 == Rint(a.waveform_window[2] * a.sample_rate, 1000000)
            n == -w0 + w1 + 1
        IN \A c \in ChannelsOf(a) :
              LET sdc == spike_data[c]
              IN /\ n >= 0
                 /\ sdc.waveforms.shape[2] = n
                 /\ Len(sdc.waveforms.flat) = sdc.waveforms.shape[1] * n
                 /\ \A k \in 1..sdc.waveforms.shape[1] :
                       Len(RowOf(sdc.waveforms, k - 1)) = n
                 /\ Len(sdc.waveform_timestamps) = n

\* a window of -1.5 ms to 0.5 ms at 1000 Hz, three samples, one of two
\* candidates culled
C15_Witness ==
    /\ Returned
    /\ fw_call.waveform_window = <<-1500, 500>>
    /\ Trimmed /\ i_waveform = 1
    /\ spike_data[1].waveforms.shape = <<1, 3>>
    /\ Len(spike_data[1].waveform_timestamps) = 3

\* run j is run i without return threshold
RelaxedRun(i, j) ==
    /\ ReturnSigmas(fw_hist[i].call).some
    /\ fw_hist[j].call = WithoutReturn(fw_hist[i].call)
    /\ fw_hist[i].exc = NoExc
    /\ fw_hist[j].exc = NoExc

\* where sample index p is in the sequence si (0: nowhere)
PlaceOf(si, p) == IF \E m \in 1..Len(si) : si[m] = p
                  THEN CHOOSE m \in 1..Len(si) : si[m] = p ELSE 0

\* C16: per channel, the run with a return threshold is a sub-sequence of
\* the run without one on the same data and with the same other
\* parameters: not more waveforms, every sample index kept is in the
\* unfiltered run, in the same order, with the same waveform row.
C16_ReturnThresholdFilters ==
    \A i, j \in 1..Len(fw_hist) :
        RelaxedRun(i, j) =>
            \A c \in ChannelsOf(fw_hist[i].call) :
                LET strict == fw_hist[i].ret[c]
                    free == fw_hist[j].ret[c]
                IN /\ strict.waveforms.shape[1] <= free.waveforms.shape[1]
                   /\ Len(strict.sample_indices) <= Len(free.sample_indices)
                   /\ \A k \in 1..Len(strict.sample_indices) :
                         LET m == PlaceOf(free.sample_indices, strict.sample_indices[k])
                         IN /\ m >= 1
                            /\ RowOf(strict.waveforms, k - 1) = RowOf(free.waveforms, m - 1)
                            /\ k > 1 =>
                                  PlaceOf(free.sample_indices, strict.sample_indices[k - 1]) < m

\* the return threshold culls the first of three candidates
C16_Witness ==
    /\ Len(fw_hist) = 2
    /\ RelaxedRun(1, 2)
    /\ Len(fw_hist[1].ret[1].sample_indices) = 2
    /\ Len(fw_hist[2].ret[1].sample_indices) = 3
    /\ fw_hist[1].ret[1].sample_indices[1] = fw_hist[2].ret[1].sample_indices[2]

\* C17: sample_indices of every SpikeData returned is strictly ascending,
\* culled and trimmed or not.
C17_IndicesAscending ==
    Returned =>
        \A c \in ChannelsOf(fw_call) :
            LET si == spike_data[c].sample_indices
            IN \A k \in 1..(Len(si) - 1) : si[k] < si[k + 1]

\* two indices left of three candidates
C17_Witness ==
    /\ Returned
    /\ Trimmed
    /\ fw_call.data.shape[2] = 1
    /\ Len(i_peaks) = 3
    /\ Len(spike_data[1].sample_indices) = 2

\* C18: with a config, detection and extraction use the direction, the
\* sigma multipliers and the waveform_window of the config: the window in
\* samples and the waveform length are those of config.waveform_window,
\* whatever the waveform_window argument is.
C18_ConfigOverrides ==
    (fw_pc \notin {"idle"} /\ fw_call.config.some) =>
        LET cfg == fw_call.config.val
            w == <<Rint(cfg.waveform_window[1] * fw_call.sample_rate, 1000000),
                   Rint(cfg.waveform_window[2] * fw_call.sample_rate, 1000000)>>
        IN /\ \A c \in ChannelsOf(fw_call) :
                 /\ configs[c].direction = cfg.direction
                 /\ configs[c].n_sigmas = cfg.n_sigmas
                 /\ configs[c].n_sigmas_return = cfg.n_sigmas_return
                 /\ configs[c].n_sigmas_reject = cfg.n_sigmas_reject
                 /\ configs[c].waveform_window = cfg.waveform_window
           /\ waveform_window_samples = w
           /\ n_samples_per_waveform = -w[1] + w[2] + 1
           /\ Returned =>
                 \A c \in ChannelsOf(fw_call) :
                     spike_data[c].waveforms.shape[2] = -w[1] + w[2] + 1

\* C20: after the cull and the trim, row k of waveforms is the window
\* extracted for the k-th accepted peak and sample_indices[k] is that peak;
\* waveforms, sample_indices and timestamps have as many entries as peaks
\* were accepted, and nothing of a rejected candidate or of the unused part
\* of the buffer is left.
C20_TrimKeepsAcceptedRows ==
    Returned =>
        \A c \in ChannelsOf(fw_call) :
            LET sdc == spike_data[c]
                w == waveform_window_samples
                accepted == AcceptedPeaks(fw_call, c, configs[c], w)
            IN /\ sdc.sample_indices = accepted
               /\ sdc.waveforms.shape = <<Len(accepted), n_samples_per_waveform>>
               /\ Len(sdc.waveforms.flat) = Len(accepted) * n_samples_per_waveform
               /\ Len(sdc.timestamps) = Len(accepted)
               /\ \A k \in 1..Len(accepted) :
                     /\ RowOf(sdc.waveforms, k - 1)
                           = ExtractWaveform(fw_call.data, c - 1, accepted[k], w)
                     /\ sdc.timestamps[k] = Ratio(accepted[k], fw_call.sample_rate)

\* the first of two candidates rejected, the second accepted
C20_Witness ==
    /\ Returned
    /\ Trimmed
    /\ fw_call.data.shape[2] = 1
    /\ Len(i_peaks) = 2
    /\ spike_data[1].sample_indices = <<i_peaks[2]>>
    /\ n_samples_per_waveform = 3

\* ------------------------------------------------------------------------
\* Properties of move_clusters
\* ------------------------------------------------------------------------
\* a move the claim is about: to another place, the destination outside the
\* clusters moved
ProperMove(a) ==
    /\ a.source # a.destination
    /\ ~(a.destination >= a.source /\ a.destination < a.source + a.count)

\* C19: after move_clusters(labels, source, count, destination), source #
\* destination and destination outside source..source+count-1, every element
\* labelled source + k, 0 <= k < count, is labelled destination + k when
\* moving up (source > destination) and destination - count + k when moving
\* down; the other clusters keep their relative order; the labels are still
\* exactly 0..n_clusters-1.
C19_MovedClustersLand ==
    (mc_pc = "done" /\ ProperMove(mc_call)) =>
        LET a == mc_call
            before == a.labels
            after == mc_ret.labels
            moved(v) == v >= a.source /\ v < a.source + a.count
            first == IF a.source > a.destination THEN a.destination
                     ELSE a.destination - a.count
        IN /\ mc_ret.kind = "array"
           /\ Len(after) = Len(before)
           /\ \A e \in 1..Len(before) :
                 moved(before[e]) => after[e] = first + (before[e] - a.source)
           /\ \A e, f \in 1..Len(before) :
                 (~moved(before[e]) /\ ~moved(before[f]) /\ before[e] < before[f]) =>
                     after[e] < after[f]
           /\ Range(after) = Range(before)

\* the part of C19 the code keeps: the labels are a permutation of what they
\* were, and a cluster stays a cluster
C19_StillAPermutation ==
    (mc_pc = "done" /\ ProperMove(mc_call)) =>
        /\ Range(mc_ret.labels) = Range(mc_call.labels)
        /\ \A e, f \in 1..Len(mc_call.labels) :
              (mc_call.labels[e] = mc_call.labels[f]) <=> (mc_ret.labels[e] = mc_ret.labels[f])

\* C21: for every window (w0, w1) with w0 <= w1 and every accepted peak p
\* of a channel of n samples, the window is inside the recording, 0 <= p +
\* w0 and p + w1 <= n - 1, and the stored waveform is raw[p + w0 .. p + w1];
\* so a candidate whose window starts before sample 0 or ends after sample
\* n - 1 is rejected, windows entirely before the peak included.
C21_WindowInsideRecording ==
    (Returned /\ waveform_window_samples[1] <= waveform_window_samples[2]) =>
        \A c \in ChannelsOf(fw_call) :
            LET sdc == spike_data[c]
                col == Column(fw_call.data, c - 1)
                w0 == waveform_window_samples[1]
                w1 == waveform_window_samples[2]
            IN \A k \in 1..Len(sdc.sample_indices) :
                  LET p == sdc.sample_indices[k]
                  IN /\ 0 <= p + w0
                     /\ p + w1 <= Len(col) - 1
                     /\ RowOf(sdc.waveforms, k - 1)
                           = [j \in 1..(w1 - w0 + 1) |-> col[p + w0 + j]]

\* the parameters find_waveforms works with: the config's when one is given
EffectiveSigmas(a) == IF a.config.some THEN a.config.val.n_sigmas ELSE a.n_sigmas
EffectiveReject(a) ==
    IF a.config.some THEN a.config.val.n_sigmas_reject ELSE a.n_sigmas_reject
EffectiveDirection(a) ==
    IF a.config.some THEN a.config.val.direction
    ELSE IF a.direction > 0 THEN 1 ELSE -1

\* direction * raw[p] >= n_sigmas * sd and, with a reject threshold,
\* direction * raw[p] <= n_sigmas_reject * sd, equality included
WithinThresholds(a, c, p) ==
    LET v == EffectiveDirection(a) * Column(a.data, c - 1)[p + 1]
        sd == EstimateSd(a.data)[c]
    IN /\ SampleScale * v >= ThresholdScale * (EffectiveSigmas(a) * sd)
       /\ EffectiveReject(a).some =>
              SampleScale * v <= ThresholdScale * (EffectiveReject(a).val * sd)

Signed(a, c) ==
    LET col == Column(a.data, c)
    IN [r \in 1..Len(col) |-> EffectiveDirection(a) * col[r]]

\* C23: every candidate peak index i of a channel satisfies signal'[i] >
\* signal'[i-1] and signal'[i] >= signal'[i+1], signal' being direction *
\* raw: of a flat-topped peak the one index reported is the earliest sample
\* of the run, and the first and the last sample are never reported.
C23_PeakIsEarliestOfRun ==
    fw_pc = "peak" =>
        LET x == Signed(fw_call, chn)
        IN \A k \in 1..Len(i_peaks) :
              LET i == i_peaks[k]
              IN /\ 0 < i
                 /\ i < Len(x) - 1
                 /\ x[i + 1] > x[i]
                 /\ x[i + 1] >= x[i + 2]

\* the return threshold of the call, as a multiple of sd
EffectiveReturn(a) ==
    IF a.config.some THEN a.config.val.n_sigmas_return ELSE a.n_sigmas_return

\* some sample of the window of peak p at or after p has direction * raw <=
\* n_sigmas_return * sd
ReturnsAfterPeak(a, c, p, w1) ==
    LET x == Signed(a, c - 1)
        sd == EstimateSd(a.data)[c]
    IN \E j \in p..(p + w1) :
          SampleScale * x[j + 1] <= ThresholdScale * (EffectiveReturn(a).val * sd)

SameParameters(i, j) ==
    /\ fw_hist[i].exc = NoExc
    /\ fw_hist[j].exc = NoExc
    /\ fw_hist[j].call = [fw_hist[i].call EXCEPT !.data = fw_hist[j].call.data]

\* C29: the SpikeData of channel c is decided by column c, the sample rate
\* and the detection parameters alone: two recordings that agree on
\* column c give the same SpikeData for channel c whatever their other
\* columns, and a column gives the same result, but for the channel index,
\* whichever place it has in the order in which the channels are processed.
C29_ChannelsIndependent ==
    \A i, j \in 1..Len(fw_hist) :
        SameParameters(i, j) =>
            \A c \in ChannelsOf(fw_hist[i].call), k \in ChannelsOf(fw_hist[j].call) :
                Column(fw_hist[i].call.data, c - 1) = Column(fw_hist[j].call.data, k - 1) =>
                    /\ fw_hist[j].ret[k] = [fw_hist[i].ret[c] EXCEPT !.channel = k - 1]
                    /\ c = k => fw_hist[j].ret[k] = fw_hist[i].ret[c]

\* a column with a spike next to two different columns, both with spikes
C29_Witness ==
    /\ Len(fw_hist) = 2
    /\ SameParameters(1, 2)
    /\ Column(fw_hist[1].call.data, 0) = Column(fw_hist[2].call.data, 0)
    /\ Column(fw_hist[1].call.data, 1) # Column(fw_hist[2].call.data, 1)
    /\ Len(fw_hist[2].ret[1].sample_indices) >= 1
    /\ Len(fw_hist[1].ret[2].sample_indices) >= 1
    /\ Len(fw_hist[2].ret[2].sample_indices) >= 1

\* the two columns processed in the other order
C29_WitnessSwapped ==
    /\ Len(fw_hist) = 2
    /\ SameParameters(1, 2)
    /\ Column(fw_hist[1].call.data, 0) = Column(fw_hist[2].call.data, 1)
    /\ Column(fw_hist[1].call.data, 1) = Column(fw_hist[2].call.data, 0)
    /\ Column(fw_hist[1].call.data, 0) # Column(fw_hist[1].call.data, 1)
    /\ Len(fw_hist[1].ret[1].sample_indices) >= 1
    /\ Len(fw_hist[1].ret[2].sample_indices) >= 1

\* bytes of a packet header: sentinel, sample offset (4 bytes in NEURALCD,
\* 8 in BRSMPGRP), sample count
PacketHeaderBytes(f) == 1 + (IF f.file_type_id = "NEURALCD" THEN 4 ELSE 8) + 4
\* where the data of packet k (one-based) of file f ends, by the sample
\* counts the packets declare
RECURSIVE DataEnd(_, _)
DataEnd(f, k) ==
    IF k = 0 THEN f.bytes_in_header
    ELSE DataEnd(f, k - 1) + PacketHeaderBytes(f) + 2 * f.packets[k].n * f.n_channels

\* the last scan succeeded and its results are in the loop variables
ScannedInLoop ==
    /\ call.packet_mode \in {"last", "all"}
    /\ pc \in {"last_loop", "all_loop", "tail", "done"}
    /\ Len(ScanOps) >= 1

\* C25: packet k + 1 is scanned at the byte where the data of packet k
\* ends (the first at the end of the file header), and no packet is scanned
\* after one whose data ends at the end of the file; a scanned packet's
\* data starts 1 + W + 4 bytes after the packet's offset (W = 4 for
\* NEURALCD, 8 for BRSMPGRP) and ends 2 * n_samples * n_channels_in_file
\* bytes further, whatever the channel selection, and is_eof holds exactly
\* when that end is the file size.
C25_PacketOffsets ==
    /\ \A k \in 1..Len(ScanOps) :
          /\ ScanOps[k].pos = DataEnd(file, k - 1)
          /\ k >= 2 => DataEnd(file, k - 1) # FileSize(file)
    /\ \A k \in 1..Len(ReadOps) :
          LET scanned == IF call.packet_mode = "all" THEN k ELSE Len(ScanOps)
          IN ReadOps[k].pos = ScanOps[scanned].pos + PacketHeaderBytes(file)
    /\ ScannedInLoop =>
          LET k == Len(ScanOps)
          IN /\ packet_start_pos = ScanOps[k].pos + PacketHeaderBytes(file)
             /\ packet_end_pos
                   = packet_start_pos + 2 * file.packets[k].n * file.n_channels
             /\ packet_end_pos = DataEnd(file, k)
             /\ is_eof <=> (packet_end_pos = FileSize(file))

\* three BRSMPGRP packets scanned for one channel out of two
C25_Witness ==
    /\ pc = "done"
    /\ call.packet_mode = "last"
    /\ file.file_type_id = "BRSMPGRP"
    /\ Len(channels) < file.n_channels
    /\ Len(ScanOps) = MaxPackets
    /\ file.packets[2].n > 0
    /\ is_eof

\* C27: every returned recording whose packet carries a sample offset > 0
\* has time_origin = header time_origin + packet_sample_offset /
\* sample_rate, whatever packets precede it in the file, earlier packets
\* with sample offset 0 (which trigger a time correction) included.
C27_OriginPlusSampleOffset ==
    pc = "done" =>
        \A k \in 1..Len(ret.cds) :
            ret.cds[k].packet_sample_offset > 0 =>
                ret.cds[k].time_origin
                    = HeaderOrigin
                        + TimedeltaMicros(ret.cds[k].packet_sample_offset, file.raw_rate)

Ascending(s) == \A i, j \in 1..Len(s) : i < j => s[i] <= s[j]

\* C26 as stated: the channel list the resolver hands to the sample reader
\* is in ascending order of in-file channel index, for every request.
C26_ChannelsAscending == PastValidation => Ascending(channels)

\* C26 amended: the channel list the resolver hands to the sample reader
\* is in the order of the request: for an electrode request the in-file
\* index of each requested electrode found in the file, in request order;
\* for a channel request the requested indices below the file's channel
\* count, in request order; for no request 0..n-1. It is ascending exactly
\* when that is.
C26_ChannelsInRequestOrder ==
    PastValidation =>
        LET n == file.n_channels
            ids == FileIds(file)
            kept == SelectSeq(call.electrodes.val, LAMBDA e : e \in Range(ids))
            expected ==
                IF Truthy(call.electrodes)
                THEN [i \in 1..Len(kept) |-> IndexOf(ids, kept[i])]
                ELSE IF Truthy(call.channels)
                THEN SelectSeq(call.channels.val, LAMBDA c : c < n)
                ELSE AllChannels(n)
        IN /\ channels = expected
           /\ Ascending(channels) <=> Ascending(expected)

\* a request of channels in descending order is read in that order
C26_Witness ==
    /\ pc = "done"
    /\ ~Truthy(call.electrodes)
    /\ Truthy(call.channels)
    /\ Len(channels) >= 2
    /\ channels = call.channels.val
    /\ channels[1] > channels[2]
    /\ channels[2] >= 0

\* C28: every entry of the channels list of a returned recording is a
\* valid zero-based channel index, 0 <= c < n_channels_in_file, for every
\* request, requests that hold negative integers included.
C28_ChannelsAreIndices ==
    pc = "done" =>
        \A k \in 1..Len(ret.cds) :
            \A j \in 1..Len(ret.cds[k].channels) :
                /\ 0 <= ret.cds[k].channels[j]
                /\ ret.cds[k].channels[j] < file.n_channels

\* every packet is scanned at a higher offset than the one before
ScanOffsetsIncrease ==
    \A k \in 2..Len(ScanOps) : ScanOps[k].pos > ScanOps[k - 1].pos

\* how the scanning of the 'last' and 'all' loops ends: a scan fails, with
\* the sentinel error, exactly at an offset that holds no 0x01, which every
\* offset at or past the end of the file is; no packet is scanned after one
\* that ends at the end of the file; 'last' leaves its loop only there;
\* 'all' returns only from there, or without a scan when no sample is asked
\* for, and fails in reading only a packet whose data is not all in the
\* file; the one read of 'last' never fails
LoopsEndAtEofOrSentinel ==
    /\ \A k \in 1..Len(ScanOps) :
          /\ ScanOps[k].pos >= FileSize(file) => NoSentinelAt(file, ScanOps[k].pos)
          /\ k < Len(ScanOps) => ~NoSentinelAt(file, ScanOps[k].pos)
          /\ k >= 2 => ScanOps[k].pos # FileSize(file)
    /\ (Len(ScanOps) >= 1 /\ NoSentinelAt(file, ScanOps[Len(ScanOps)].pos)) =>
          (pc = "raised" /\ exc = Exc("ValueError", "sentinel"))
    /\ (pc = "raised" /\ exc = Exc("ValueError", "sentinel")) =>
          NoSentinelAt(file, ScanOps[Len(ScanOps)].pos)
    /\ (call.packet_mode = "last" /\ pc \in {"tail", "done"}) =>
          (is_eof /\ packet_end_pos = FileSize(file))
    /\ (call.packet_mode = "all" /\ pc = "done") =>
          \/ is_eof /\ packet_end_pos = FileSize(file)
          \/ n_samples <= 0 /\ ScanOps = <<>>
    /\ (pc = "raised" /\ exc = Exc("ValueError", "read")) =>
          LET r == ReadOps[Len(ReadOps)]
          IN /\ call.packet_mode # "last"
             /\ r.n >= 1
             /\ r.pos + 2 * r.n * file.n_channels > FileSize(file)

\* the two ends alone: a read in mode 'last' or 'all' that is over, past
\* the checks of the header and of the selection, has come to the packet
\* that ends at the end of the file or has failed on a missing sentinel
LoopsEndOnlyAtEofOrSentinel ==
    (/\ call.packet_mode \in {"last", "all"}
     /\ pc = "done" \/ (pc = "raised" /\ Len(ScanOps) >= 1)) =>
        \/ pc = "done" /\ is_eof /\ packet_end_pos = FileSize(file)
        \/ /\ pc = "raised"
           /\ exc = Exc("ValueError", "sentinel")
           /\ NoSentinelAt(file, ScanOps[Len(ScanOps)].pos)

====
